---------------------------- MODULE Spec2Model ----------------------------
(***************************************************************************)
(* A model of the decline-curve engine of petroflow                        *)
(* (src/backend/app/engine/dca): the forecast generator, the Monte Carlo   *)
(* EUR estimator and the curve fitter.                                     *)
(*                                                                         *)
(* Floating point.  A float is a record: a finite value is an exact        *)
(* rational n/d in lowest terms (d > 0), and the three IEEE specials are   *)
(* kept apart, because the code's behaviour on them is what several        *)
(* properties are about.  The inputs explored are small integers and       *)
(* halves, for which the IEEE results the comparisons depend on agree      *)
(* with the exact ones.  A Python exception raised inside an expression    *)
(* is the value Exc, which every operation propagates, so that the place   *)
(* where the code catches it (or does not) decides what happens.           *)
(***************************************************************************)
EXTENDS Integers, Sequences, FiniteSets, TLC

----------------------------------------------------------------------------
(* Rationals and IEEE specials *)

Abs(n) == IF n < 0 THEN -n ELSE n

RECURSIVE GCD(_, _)
GCD(a, b) == IF b = 0 THEN a ELSE GCD(b, a % b)

Gcd(a, b) == IF a = 0 /\ b = 0 THEN 1 ELSE GCD(Abs(a), Abs(b))

Zero == [k |-> "fin", n |-> 0, d |-> 1]
One == [k |-> "fin", n |-> 1, d |-> 1]
NaN == [k |-> "nan", n |-> 0, d |-> 1]
PInf == [k |-> "inf", n |-> 1, d |-> 1]
NInf == [k |-> "inf", n |-> -1, d |-> 1]
Exc == [k |-> "exc", n |-> 0, d |-> 1]

\* n/d divided through by a common divisor g > 0, the sign carried by n
Over(n, d, g) ==
    [k |-> "fin", n |-> (IF d < 0 THEN -n ELSE n) \div g, d |-> Abs(d) \div g]

\* the rational n/d (d # 0) in lowest terms
Fin(n, d) == Over(n, d, Gcd(n, d))

Int2F(i) == [k |-> "fin", n |-> i, d |-> 1]

IsNaN(x) == x.k = "nan"
IsExc(x) == x.k = "exc"
IsInf(x) == x.k = "inf"
IsFinite(x) == x.k = "fin"
Sgn(x) == IF x.n > 0 THEN 1 ELSE IF x.n < 0 THEN -1 ELSE 0
InfOf(s) == IF s > 0 THEN PInf ELSE NInf

FNeg(x) ==
    CASE IsExc(x) -> Exc
      [] IsNaN(x) -> NaN
      [] IsInf(x) -> InfOf(-x.n)
      [] OTHER -> Fin(-x.n, x.d)

\* x + y of two finite values over the least common denominator; g = gcd(x.d, y.d)
SumOver(x, y, g) ==
    Fin(x.n * (y.d \div g) + y.n * (x.d \div g), (x.d \div g) * y.d)

FAdd(x, y) ==
    CASE IsExc(x) \/ IsExc(y) -> Exc
      [] IsNaN(x) \/ IsNaN(y) -> NaN
      [] IsInf(x) /\ IsInf(y) -> IF x.n = y.n THEN x ELSE NaN
      [] IsInf(x) -> x
      [] IsInf(y) -> y
      [] OTHER -> SumOver(x, y, Gcd(x.d, y.d))

FSub(x, y) == FAdd(x, FNeg(y))

\* x * y of two finite values, reduced crosswise first;
\* g1 = gcd(x.n, y.d), g2 = gcd(y.n, x.d)
ProductOver(x, y, g1, g2) ==
    Fin((x.n \div g1) * (y.n \div g2), (x.d \div g2) * (y.d \div g1))

FMul(x, y) ==
    CASE IsExc(x) \/ IsExc(y) -> Exc
      [] IsNaN(x) \/ IsNaN(y) -> NaN
      [] IsInf(x) \/ IsInf(y) ->
           IF Sgn(x) * Sgn(y) = 0 THEN NaN ELSE InfOf(Sgn(x) * Sgn(y))
      [] OTHER -> ProductOver(x, y, Gcd(x.n, y.d), Gcd(y.n, x.d))

\* IEEE division, as numpy does it on arrays: no exception, x/0 is +-inf or nan
NpDiv(x, y) ==
    CASE IsExc(x) \/ IsExc(y) -> Exc
      [] IsNaN(x) \/ IsNaN(y) -> NaN
      [] IsInf(x) /\ IsInf(y) -> NaN
      [] IsInf(x) -> InfOf(x.n * (IF Sgn(y) < 0 THEN -1 ELSE 1))
      [] IsInf(y) -> Zero
      [] y.n = 0 -> IF x.n = 0 THEN NaN ELSE InfOf(Sgn(x))
      [] OTHER -> FMul(x, Fin(y.d, y.n))

\* division of two Python floats: ZeroDivisionError on a zero divisor
PyDiv(x, y) ==
    IF IsFinite(y) /\ y.n = 0 /\ ~IsExc(x) THEN Exc ELSE NpDiv(x, y)

\* x < y of two finite values; g = gcd(x.d, y.d)
LessOver(x, y, g) == x.n * (y.d \div g) < y.n * (x.d \div g)

\* comparisons: every comparison with a NaN is false
FLt(x, y) ==
    CASE IsNaN(x) \/ IsNaN(y) -> FALSE
      [] IsInf(x) /\ IsInf(y) -> x.n < y.n
      [] IsInf(x) -> x.n < 0
      [] IsInf(y) -> y.n > 0
      [] OTHER -> LessOver(x, y, Gcd(x.d, y.d))

FEq(x, y) == ~IsNaN(x) /\ ~IsNaN(y) /\ x = y
FLe(x, y) == FLt(x, y) \/ FEq(x, y)
FGt(x, y) == FLt(y, x)
FGe(x, y) == FLe(y, x)

\* Python's max(a, b) and min(a, b) on floats: b unless a compares greater (less)
PyMax(a, b) == IF FGt(b, a) THEN b ELSE a
PyMin(a, b) == IF FLt(b, a) THEN b ELSE a

\* np.maximum: a NaN operand gives NaN
NpMaximum(a, b) ==
    IF IsNaN(a) \/ IsNaN(b) THEN NaN ELSE IF FGt(b, a) THEN b ELSE a

----------------------------------------------------------------------------
(* numpy's elementary functions.  Their values on the IEEE specials and    *)
(* outside their domain are numpy's (a warning, never an exception); on    *)
(* the finite values inside it each is a rational approximant with the     *)
(* function's sign, monotonicity and fixed point.                          *)

\* np.exp: exp(0) = 1, positive, increasing; 1 + x for x >= 0, 1/(1 - x) below
NpExp(x) ==
    CASE IsExc(x) -> Exc
      [] IsNaN(x) -> NaN
      [] IsInf(x) -> IF x.n > 0 THEN PInf ELSE Zero
      [] x.n >= 0 -> FAdd(One, x)
      [] OTHER -> NpDiv(One, FSub(One, x))

\* np.log: nan below 0, -inf at 0; 2(x - 1)/(x + 1) above (log(1) = 0, increasing)
NpLog(x) ==
    CASE IsExc(x) -> Exc
      [] IsNaN(x) -> NaN
      [] IsInf(x) -> IF x.n > 0 THEN PInf ELSE NaN
      [] x.n < 0 -> NaN
      [] x.n = 0 -> NInf
      [] OTHER -> NpDiv(FMul(Int2F(2), FSub(x, One)), FAdd(x, One))

RECURSIVE ISqrtIn(_, _, _)
ISqrtIn(n, lo, hi) ==
    IF lo >= hi THEN lo
    ELSE LET mid == (lo + hi + 1) \div 2
         IN IF mid * mid <= n THEN ISqrtIn(n, mid, hi) ELSE ISqrtIn(n, lo, mid - 1)

\* the integer square root of n >= 0
ISqrt(n) == ISqrtIn(n, 0, IF n < 46340 THEN n ELSE 46340)

SqrtScale == 16

\* np.sqrt of a finite x >= 0: exact on a ratio of squares, else rounded down
\* to a multiple of 1/SqrtScale
SqrtFrom(x, rn, rd) ==
    IF rn * rn = x.n /\ rd * rd = x.d THEN Fin(rn, rd)
    ELSE Fin(ISqrt((x.n * SqrtScale * SqrtScale) \div x.d), SqrtScale)

SqrtFin(x) == SqrtFrom(x, ISqrt(x.n), ISqrt(x.d))

RECURSIVE IntPow(_, _)
IntPow(x, p) == IF p = 0 THEN One ELSE FMul(x, IntPow(x, p - 1))

\* a (= |x|) to an infinite power e
PowerToInf(a, e) ==
    IF FEq(a, One) THEN One
    ELSE IF FGt(a, One) = (e.n > 0) THEN PInf ELSE Zero

\* pw is the base to the power |e|: the power itself, or its reciprocal for e < 0
PowerSigned(pw, e) == IF e.n > 0 THEN pw ELSE NpDiv(One, pw)

\* np.power(x, e) for an exponent e that is an integer or a half-integer
NpPower(x, e) ==
    CASE IsExc(x) \/ IsExc(e) -> Exc
      [] IsNaN(e) -> NaN
      [] IsFinite(e) /\ e.n = 0 -> One
      [] IsNaN(x) -> NaN
      [] IsInf(e) -> PowerToInf(IF IsInf(x) THEN PInf ELSE Fin(Abs(x.n), x.d), e)
      [] e.d = 1 -> PowerSigned(IntPow(x, Abs(e.n)), e)
      [] OTHER ->
           IF Sgn(x) < 0 THEN NaN
           ELSE PowerSigned(IntPow(IF IsInf(x) THEN PInf ELSE SqrtFin(x), Abs(e.n)), e)

----------------------------------------------------------------------------
(* The six decline laws, at one time t.  A numpy array operation is the    *)
(* elementwise one; the operations on the scalar parameters alone are      *)
(* Python's, and raise where Python raises.                                *)

exponential_rate(t, qi, di) == FMul(qi, NpExp(FMul(FNeg(di), t)))

exponential_cumulative(t, qi, di) ==
    FMul(PyDiv(qi, di), FSub(One, NpExp(FMul(FNeg(di), t))))

hyperbolic_rate(t, qi, di, b) ==
    NpDiv(qi, NpPower(FAdd(One, FMul(FMul(b, di), t)), PyDiv(One, b)))

\* hyperbolic_cumulative once q_t is computed
hyperbolic_cumulative_from(q_t, t, qi, di, b) ==
    IF IsExc(q_t) THEN Exc
    ELSE IF FEq(b, One)
    THEN FMul(PyDiv(qi, di), NpLog(FAdd(One, FMul(di, t))))
    ELSE FMul(NpDiv(NpPower(qi, b), FMul(FSub(One, b), di)),
              FSub(NpPower(qi, FSub(One, b)), NpPower(q_t, FSub(One, b))))

hyperbolic_cumulative(t, qi, di, b) ==
    hyperbolic_cumulative_from(hyperbolic_rate(t, qi, di, b), t, qi, di, b)

harmonic_rate(t, qi, di) == NpDiv(qi, FAdd(One, FMul(di, t)))

harmonic_cumulative(t, qi, di) ==
    FMul(PyDiv(qi, di), NpLog(FAdd(One, FMul(di, t))))

\* t_switch of the modified hyperbolic law: three Python floats
t_switch(di, b, d_min) == PyDiv(FSub(di, d_min), FMul(FMul(b, di), d_min))

\* the two phases of the rate, once t_switch (ts) and q_switch are computed
modified_hyperbolic_rate_phases(ts, q_switch, t, qi, di, b, d_min) ==
    IF IsExc(ts) \/ IsExc(q_switch) THEN Exc
    ELSE IF FLe(t, ts) THEN hyperbolic_rate(t, qi, di, b)
    ELSE FMul(q_switch, NpExp(FMul(FNeg(d_min), FSub(t, ts))))

modified_hyperbolic_rate_after(ts, t, qi, di, b, d_min) ==
    modified_hyperbolic_rate_phases(ts, hyperbolic_rate(ts, qi, di, b), t, qi, di, b, d_min)

modified_hyperbolic_rate(t, qi, di, b, d_min) ==
    IF FGe(d_min, di) THEN FMul(qi, NpExp(FMul(FNeg(d_min), t)))
    ELSE modified_hyperbolic_rate_after(t_switch(di, b, d_min), t, qi, di, b, d_min)

\* the two phases of the cumulative, once t_switch (ts), q_switch and
\* cum_at_switch are computed
modified_hyperbolic_cumulative_phases(ts, q_switch, cum_at_switch, t, qi, di, b, d_min) ==
    IF IsExc(ts) \/ IsExc(q_switch) \/ IsExc(cum_at_switch) THEN Exc
    ELSE IF FLe(t, ts) THEN hyperbolic_cumulative(t, qi, di, b)
    ELSE FAdd(cum_at_switch,
              FMul(NpDiv(q_switch, d_min),
                   FSub(One, NpExp(FMul(FNeg(d_min), FSub(t, ts))))))

modified_hyperbolic_cumulative_after(ts, t, qi, di, b, d_min) ==
    modified_hyperbolic_cumulative_phases(ts, hyperbolic_rate(ts, qi, di, b), hyperbolic_cumulative(ts, qi, di, b), t, qi, di, b, d_min)

modified_hyperbolic_cumulative(t, qi, di, b, d_min) ==
    IF FGe(d_min, di)
    THEN FMul(PyDiv(qi, d_min), FSub(One, NpExp(FMul(FNeg(d_min), t))))
    ELSE modified_hyperbolic_cumulative_after(t_switch(di, b, d_min), t, qi, di, b, d_min)

sedm_rate(t, qi, tau, n) == FMul(qi, NpExp(FNeg(NpPower(NpDiv(t, tau), n))))

\* scipy.special.gamma at 1/n, for the shapes n = 1 and n = 1/2: both are 1
ScipyGamma(a) == IF IsExc(a) THEN Exc ELSE IF FEq(a, One) \/ FEq(a, Int2F(2)) THEN One ELSE NaN

\* scipy.special.gammainc(a, x): 1 - e^-x at a = 1, 1 - (1 + x) e^-x at a = 2,
\* nan for a negative x
ScipyGammainc(a, x) ==
    CASE IsExc(a) \/ IsExc(x) -> Exc
      [] IsNaN(x) \/ Sgn(x) < 0 -> NaN
      [] IsInf(x) -> One
      [] FEq(a, One) -> FSub(One, NpExp(FNeg(x)))
      [] FEq(a, Int2F(2)) -> FSub(One, FMul(FAdd(One, x), NpExp(FNeg(x))))
      [] OTHER -> NaN

\* eur_total * gammainc(1/n, (t/tau)^n)
sedm_cumulative(t, qi, tau, n) ==
    FMul(FMul(PyDiv(FMul(qi, tau), n), ScipyGamma(PyDiv(One, n))),
         ScipyGammainc(PyDiv(One, n), NpPower(NpDiv(t, tau), n)))

\* the floor of duong's t_safe: 1e-10 in the source, here the smallest power
\* of ten whose reciprocal the model's integers hold
TSafeFloor == Fin(1, 1000000000)

\* np.maximum(t, 1e-10): every positive time of the model is above the floor
TSafe(t) ==
    IF IsNaN(t) \/ IsExc(t) THEN t ELSE IF FGt(t, Zero) THEN t ELSE TSafeFloor

\* qi * t_safe^(-m) * exp(exponent)
duong_rate_at(t_safe, qi, a, m) ==
    FMul(FMul(qi, NpPower(t_safe, FNeg(m))),
         NpExp(FMul(PyDiv(a, FSub(One, m)),
                    FSub(NpPower(t_safe, FSub(One, m)), One))))

duong_rate(t, qi, a, m) == duong_rate_at(TSafe(t), qi, a, m)

\* q_t * t_safe / a
duong_cumulative(t, qi, a, m) == NpDiv(FMul(duong_rate(t, qi, a, m), TSafe(t)), a)

\* the guard of every time_to_rate function: q <= 0 or qi <= 0 or q >= qi
RateNotAhead(q, qi) == FLe(q, Zero) \/ FLe(qi, Zero) \/ FGe(q, qi)

\* -np.log(q / qi) / di: q / qi is Python's, the quotient by di numpy's
exponential_time_to_rate(q, qi, di) ==
    IF RateNotAhead(q, qi) THEN Zero
    ELSE NpDiv(FNeg(NpLog(PyDiv(q, qi))), di)

\* (np.power(qi / q, b) - 1.0) / (b * di)
hyperbolic_time_to_rate(q, qi, di, b) ==
    IF RateNotAhead(q, qi) THEN Zero
    ELSE NpDiv(FSub(NpPower(PyDiv(qi, q), b), One), FMul(b, di))

\* (qi / q - 1.0) / di, of Python floats
harmonic_time_to_rate(q, qi, di) ==
    IF RateNotAhead(q, qi) THEN Zero
    ELSE PyDiv(FSub(PyDiv(qi, q), One), di)

\* tau * np.power(-np.log(q / qi), 1.0 / n)
sedm_time_to_rate(q, qi, tau, n) ==
    IF RateNotAhead(q, qi) THEN Zero
    ELSE FMul(tau, NpPower(FNeg(NpLog(PyDiv(q, qi))), PyDiv(One, n)))

\* modified_hyp.py lines 110-116, once t_switch (ts) and q_switch are computed
modified_hyperbolic_time_to_rate_phases(ts, q_switch, q, qi, di, b, d_min) ==
    IF IsExc(ts) \/ IsExc(q_switch) THEN Exc
    ELSE IF FGe(q, q_switch)
    THEN NpDiv(FSub(NpPower(PyDiv(qi, q), b), One), FMul(b, di))
    ELSE FAdd(ts, NpDiv(FNeg(NpLog(NpDiv(q, q_switch))), d_min))

\* lines 107-108: t_switch, and q_switch = qi / np.power(1 + b di t_switch, 1 / b)
modified_hyperbolic_time_to_rate_after(ts, q, qi, di, b, d_min) ==
    modified_hyperbolic_time_to_rate_phases(
        ts, NpDiv(qi, NpPower(FAdd(One, FMul(FMul(b, di), ts)), PyDiv(One, b))),
        q, qi, di, b, d_min)

modified_hyperbolic_time_to_rate(q, qi, di, b, d_min) ==
    IF RateNotAhead(q, qi) THEN Zero
    ELSE modified_hyperbolic_time_to_rate_after(t_switch(di, b, d_min), q, qi, di, b, d_min)

----------------------------------------------------------------------------
(* forecasting.py: the dispatch tables and generate_forecast *)

KnownModels ==
    {"exponential", "hyperbolic", "harmonic", "modified_hyperbolic", "sedm", "duong"}

\* _extract_params' param_order
param_order(model_type) ==
    CASE model_type \in {"exponential", "harmonic"} -> <<"qi", "di">>
      [] model_type = "hyperbolic" -> <<"qi", "di", "b">>
      [] model_type = "modified_hyperbolic" -> <<"qi", "di", "b", "d_min">>
      [] model_type = "sedm" -> <<"qi", "tau", "n">>
      [] model_type = "duong" -> <<"qi", "a", "m">>

\* _extract_params: the values in the model's order; a missing name is a KeyError
HasParams(model_type, parameters) ==
    \A i \in DOMAIN param_order(model_type) :
        param_order(model_type)[i] \in DOMAIN parameters

\* RATE_FUNCTIONS[model_type](t, *param_values) at one time
RateAt(model_type, p, t) ==
    CASE model_type = "exponential" -> exponential_rate(t, p.qi, p.di)
      [] model_type = "hyperbolic" -> hyperbolic_rate(t, p.qi, p.di, p.b)
      [] model_type = "harmonic" -> harmonic_rate(t, p.qi, p.di)
      [] model_type = "modified_hyperbolic" ->
           modified_hyperbolic_rate(t, p.qi, p.di, p.b, p.d_min)
      [] model_type = "sedm" -> sedm_rate(t, p.qi, p.tau, p.n)
      [] model_type = "duong" -> duong_rate(t, p.qi, p.a, p.m)

\* CUMULATIVE_FUNCTIONS[model_type](t, *param_values) at one time
CumAt(model_type, p, t) ==
    CASE model_type = "exponential" -> exponential_cumulative(t, p.qi, p.di)
      [] model_type = "hyperbolic" -> hyperbolic_cumulative(t, p.qi, p.di, p.b)
      [] model_type = "harmonic" -> harmonic_cumulative(t, p.qi, p.di)
      [] model_type = "modified_hyperbolic" ->
           modified_hyperbolic_cumulative(t, p.qi, p.di, p.b, p.d_min)
      [] model_type = "sedm" -> sedm_cumulative(t, p.qi, p.tau, p.n)
      [] model_type = "duong" -> duong_cumulative(t, p.qi, p.a, p.m)

\* the time_to_rate function of a model, at the rate q; duong's is a search
\* of 100 halvings over [0.01, 10000] and is left out
TimeToRateAt(model_type, p, q) ==
    CASE model_type = "exponential" -> exponential_time_to_rate(q, p.qi, p.di)
      [] model_type = "hyperbolic" -> hyperbolic_time_to_rate(q, p.qi, p.di, p.b)
      [] model_type = "harmonic" -> harmonic_time_to_rate(q, p.qi, p.di)
      [] model_type = "modified_hyperbolic" ->
           modified_hyperbolic_time_to_rate(q, p.qi, p.di, p.b, p.d_min)
      [] model_type = "sedm" -> sedm_time_to_rate(q, p.qi, p.tau, p.n)

\* an exception in a law comes from its scalar parameters alone, so the call
\* on an array raises exactly when the law raises at any one time
RateRaises(model_type, p) == IsExc(RateAt(model_type, p, One))
CumRaises(model_type, p) == IsExc(CumAt(model_type, p, One))

\* the ceiling of a finite x
Ceil(x) == -((-x.n) \div x.d)

\* np.arange(start, stop, step) for a positive step:
\* ceil((stop - start) / step) values start + i * step
NpArange(start, stop, step) ==
    LET len == Ceil(NpDiv(FSub(stop, start), step))
    IN [i \in 1..(IF len > 0 THEN len ELSE 0) |->
            FAdd(start, FMul(Int2F(i - 1), step))]

DaysPerMonth == Fin(304375, 10000)

\* np.argmax(~above_limit): the first index (from 1) of a rate not >= the limit
CutoffIdx(rates, economic_limit) ==
    CHOOSE i \in DOMAIN rates :
        /\ ~FGe(rates[i], economic_limit)
        /\ \A j \in 1..(i - 1) : FGe(rates[j], economic_limit)

\* the economic limit cutoff: how many leading points of the grid are returned
KeepCount_CutsAfterFirstBelow(rates, economic_limit) ==
    LET above_limit == [i \in DOMAIN rates |-> FGe(rates[i], economic_limit)]
    IN IF \A i \in DOMAIN rates : above_limit[i] THEN Len(rates)
       ELSE CutoffIdx(rates, economic_limit)

KeepCount_StrictlyAbove(rates, economic_limit) ==
    IF \A i \in DOMAIN rates : FGt(rates[i], economic_limit) THEN Len(rates)
    ELSE (CHOOSE i \in DOMAIN rates :
            /\ ~FGt(rates[i], economic_limit)
            /\ \A j \in 1..(i - 1) : FGt(rates[j], economic_limit)) - 1

KeepCount(rates, economic_limit) ==
    LET above_limit == [i \in DOMAIN rates |-> FGe(rates[i], economic_limit)]
        \* cutoff_idx counts from 0, as numpy does
        cutoff_idx == CutoffIdx(rates, economic_limit) - 1
    IN IF ~(\A i \in DOMAIN rates : above_limit[i])
       THEN IF cutoff_idx > 0 THEN cutoff_idx
            ELSE IF ~above_limit[1] THEN 0
            ELSE Len(rates)
       ELSE Len(rates)

Raised(err) ==
    [status |-> "raised", error |-> err, time |-> <<>>, rate |-> <<>>,
     cumulative |-> <<>>, t |-> <<>>, rates |-> <<>>, cum |-> <<>>]

\* the time grid: np.arange, and for duong the clamp to 1
TimeGrid(model_type, forecast_months, time_step) ==
    LET t == NpArange(time_step, FAdd(Int2F(forecast_months), time_step), time_step)
    IN IF model_type = "duong"
       THEN [i \in DOMAIN t |-> NpMaximum(t[i], One)]
       ELSE t

\* generate_forecast.  The result keeps, beside the three returned lists, the
\* grid t and the rates and cumulative evaluated on it (the locals the cutoff
\* reads).
generate_forecast(model_type, parameters, forecast_months, economic_limit, time_step) ==
    IF model_type \notin KnownModels THEN Raised("ValueError")
    ELSE
    LET t == TimeGrid(model_type, forecast_months, time_step)
    IN IF ~HasParams(model_type, parameters) THEN Raised("KeyError")
       ELSE IF RateRaises(model_type, parameters) \/ CumRaises(model_type, parameters)
       THEN Raised("ZeroDivisionError")
       ELSE
       LET rates == [i \in DOMAIN t |-> RateAt(model_type, parameters, t[i])]
           cumulative == [i \in DOMAIN t |-> CumAt(model_type, parameters, t[i])]
           keep == KeepCount(rates, economic_limit)
       IN [status |-> "ok", error |-> "",
           time |-> SubSeq(t, 1, keep),
           rate |-> SubSeq(rates, 1, keep),
           cumulative |-> [i \in 1..keep |-> FMul(cumulative[i], DaysPerMonth)],
           t |-> t, rates |-> rates, cum |-> cumulative]

----------------------------------------------------------------------------
(* monte_carlo.py *)

\* The process-global generator behind np.random.normal, lognormal, uniform
\* and triangular is a position in one stream of raw draws: a draw reads the
\* value at the position and advances it.
RngPeriod == 3
RawAt(pos) == pos % RngPeriod

\* what the library's generators return for a raw draw: a standard normal
\* deviate, a uniform fraction in [0, 1), a lognormal factor around the median
NormalDeviate(raw) == Int2F(raw - 1)
UniformFraction(raw) == Fin(raw, 4)
LognormalFactor(raw) == IF raw = 0 THEN Fin(1, 2) ELSE Int2F(raw)

\* max(x, 1e-12): every positive value of the model is above the floor, and
\* the floor itself is below the model's resolution, that is 0
FloorTiny(x) == IF IsNaN(x) \/ FGt(x, Zero) THEN x ELSE Zero

Has(config, key) == key \in DOMAIN config

Drew(v) == [err |-> "", v |-> v]
Fails(e) == [err |-> e, v |-> Exc]

\* _sample_parameter: the sample, or the error it raises (and then no draw)
sample_parameter(config, raw) ==
    IF ~Has(config, "type") THEN Fails("KeyError")
    ELSE LET dist_type == config.type IN
    CASE dist_type = "normal" ->
           IF ~Has(config, "mean") THEN Fails("KeyError")
           ELSE LET std == IF Has(config, "std") THEN config.std ELSE Zero
                IN Drew(FAdd(config.mean, FMul(FloorTiny(std), NormalDeviate(raw))))
      [] dist_type = "lognormal" ->
           IF ~Has(config, "mean") \/ ~Has(config, "std") THEN Fails("KeyError")
           ELSE Drew(FMul(FloorTiny(config.mean), LognormalFactor(raw)))
      [] dist_type = "uniform" ->
           IF ~Has(config, "min") \/ ~Has(config, "max") THEN Fails("KeyError")
           ELSE LET swap == FLt(config.max, config.min)
                    lower == IF swap THEN config.max ELSE config.min
                    upper == IF swap THEN config.min ELSE config.max
                IN Drew(FAdd(lower, FMul(FSub(upper, lower), UniformFraction(raw))))
      [] dist_type = "triangular" ->
           IF ~Has(config, "min") \/ ~Has(config, "mode") \/ ~Has(config, "max")
           THEN Fails("KeyError")
           ELSE LET swap == FLt(config.max, config.min)
                    lower == IF swap THEN config.max ELSE config.min
                    upper == IF swap THEN config.min ELSE config.max
                    mode == PyMin(PyMax(config.mode, lower), upper)
                IN \* numpy rejects left == right
                   IF FEq(lower, upper) THEN Fails("ValueError")
                   ELSE Drew(IF raw = 0 THEN lower
                             ELSE IF raw = 1 THEN mode
                             ELSE NpDiv(FAdd(mode, upper), Int2F(2)))
      [] OTHER -> Fails("ValueError")

NpClip_Unclipped(x, low, high) == x

\* np.clip(sample, low, high)
NpClip(x, low, high) ==
    LET m == NpMaximum(x, low)
    IN IF IsNaN(m) \/ IsNaN(high) THEN NaN ELSE IF FLt(high, m) THEN high ELSE m

BisectIters == 60
TStart == Fin(1, 100)
SearchTol == Fin(1, 100)

Mid(lo, hi) == NpDiv(FAdd(lo, hi), Int2F(2))

\* t_low and t_high when the loop is left, and the iterations not used
Bracket(t_low, t_high, left) == [t_low |-> t_low, t_high |-> t_high, left |-> left]

\* the binary search loop of _time_to_economic_limit, k iterations left
RECURSIVE BisectBracket(_, _, _, _, _, _)
BisectBracket(model_type, p, economic_limit, t_low, t_high, k) ==
    IF k = 0 THEN Bracket(t_low, t_high, 0)
    ELSE LET t_mid == Mid(t_low, t_high)
             q_mid == RateAt(model_type, p, t_mid)
         IN IF IsExc(q_mid)
            THEN BisectBracket(model_type, p, economic_limit, t_low, t_mid, k - 1)
            ELSE LET lo == IF FGt(q_mid, economic_limit) THEN t_mid ELSE t_low
                     hi == IF FGt(q_mid, economic_limit) THEN t_high ELSE t_mid
                     width == FSub(hi, lo)
                 IN IF FLt(IF Sgn(width) < 0 THEN FNeg(width) ELSE width, SearchTol)
                    THEN Bracket(lo, hi, k - 1)
                    ELSE BisectBracket(model_type, p, economic_limit, lo, hi, k - 1)

BracketMid_LowEnd(bracket) == bracket.t_low

\* line 197: return (t_low + t_high) / 2.0
BracketMid(bracket) == Mid(bracket.t_low, bracket.t_high)

Bisect(model_type, p, economic_limit, t_low, t_high, k) ==
    BracketMid(BisectBracket(model_type, p, economic_limit, t_low, t_high, k))

\* _time_to_economic_limit
time_to_economic_limit(model_type, p, economic_limit, max_months) ==
    LET q_start == RateAt(model_type, p, TStart)
        q_end == RateAt(model_type, p, Int2F(max_months))
    IN IF IsExc(q_start) THEN Zero
       ELSE IF FLt(q_start, economic_limit) THEN Zero
       ELSE IF IsExc(q_end) THEN Int2F(max_months)
       ELSE IF FGe(q_end, economic_limit) THEN Int2F(max_months)
       ELSE Bisect(model_type, p, economic_limit, TStart, Int2F(max_months),
                   BisectIters)

\* the binary search of _time_to_economic_limit is reached: neither quick
\* check returned
SearchReached(model_type, p, economic_limit, max_months) ==
    /\ ~IsExc(RateAt(model_type, p, TStart))
    /\ ~FLt(RateAt(model_type, p, TStart), economic_limit)
    /\ ~IsExc(RateAt(model_type, p, Int2F(max_months)))
    /\ ~FGe(RateAt(model_type, p, Int2F(max_months)), economic_limit)

\* the try block of run's loop: one sample's EUR; whatever is raised inside
\* it is caught and the sample is cum_to_date
SampleEur(model_type, params, economic_limit, cum_to_date, max_months) ==
    IF ~HasParams(model_type, params) THEN cum_to_date
    ELSE LET t_econ == time_to_economic_limit(model_type, params, economic_limit,
                                              max_months)
         IN IF FGt(t_econ, Zero)
            THEN LET cum == FMul(CumAt(model_type, params, t_econ), DaysPerMonth)
                 IN IF IsExc(cum) THEN cum_to_date ELSE FAdd(cum, cum_to_date)
            ELSE cum_to_date

\* np.percentile(arr, q) of a non-empty array, linear interpolation: NaN if
\* the array holds one; else the sorted array at (n - 1) q / 100, interpolated
\* as numpy's _lerp does
NpPercentile(arr, q) ==
    IF \E i \in DOMAIN arr : IsNaN(arr[i]) THEN NaN
    ELSE LET sorted == SortSeq(arr, FLt)
             pos == Fin((Len(arr) - 1) * q, 100)
             prev == pos.n \div pos.d
             next == IF prev + 1 < Len(arr) THEN prev + 1 ELSE Len(arr) - 1
             gamma == FSub(pos, Int2F(prev))
             a == sorted[prev + 1]
             b == sorted[next + 1]
             diff_b_a == FSub(b, a)
         IN IF FLt(gamma, Fin(1, 2)) THEN FAdd(a, FMul(diff_b_a, gamma))
            ELSE FSub(b, FMul(diff_b_a, FSub(One, gamma)))

\* np.mean
NpMean(arr) ==
    LET RECURSIVE Sum(_)
        Sum(k) == IF k = 0 THEN Zero ELSE FAdd(Sum(k - 1), arr[k])
    IN NpDiv(Sum(Len(arr)), Int2F(Len(arr)))

\* the MonteCarloResult run builds from its samples (eur_std is not modelled:
\* no property reads it)
MonteCarloResult_LabelsByIndex(eur_samples, iterations, param_samples) ==
    [eur_p10 |-> NpPercentile(eur_samples, 10),
     eur_p50 |-> NpPercentile(eur_samples, 50),
     eur_p90 |-> NpPercentile(eur_samples, 90),
     eur_mean |-> NpMean(eur_samples),
     eur_distribution |-> eur_samples,
     iterations |-> iterations,
     parameter_samples |-> param_samples]

MonteCarloResult(eur_samples, iterations, param_samples) ==
    [eur_p10 |-> NpPercentile(eur_samples, 90),
     eur_p50 |-> NpPercentile(eur_samples, 50),
     eur_p90 |-> NpPercentile(eur_samples, 10),
     eur_mean |-> NpMean(eur_samples),
     eur_distribution |-> eur_samples,
     iterations |-> iterations,
     parameter_samples |-> param_samples]

\* what the aggregates of an empty sample array are where np.percentile
\* returns instead of raising
EmptyResult(param_samples) ==
    [eur_p10 |-> NaN, eur_p50 |-> NaN, eur_p90 |-> NaN, eur_mean |-> NaN,
     eur_distribution |-> <<>>, iterations |-> 0,
     parameter_samples |-> param_samples]

NoResult == EmptyResult(<<>>)

----------------------------------------------------------------------------
(* fitting.py *)

Micro == Fin(1, 1000000)
Mega == Int2F(1000000)

\* DCAFitter.BOUNDS
BOUNDS ==
    [exponential |->
         [names |-> <<"qi", "di">>,
          lower |-> <<One, Micro>>,
          upper |-> <<Mega, Int2F(5)>>],
     hyperbolic |->
         [names |-> <<"qi", "di", "b">>,
          lower |-> <<One, Micro, Fin(1, 100)>>,
          upper |-> <<Mega, Int2F(5), Fin(5, 2)>>],
     harmonic |->
         [names |-> <<"qi", "di">>,
          lower |-> <<One, Micro>>,
          upper |-> <<Mega, Int2F(5)>>],
     modified_hyperbolic |->
         [names |-> <<"qi", "di", "b", "d_min">>,
          lower |-> <<One, Micro, Fin(1, 100), Fin(1, 10000)>>,
          upper |-> <<Mega, Int2F(5), Fin(5, 2), Fin(1, 2)>>],
     sedm |->
         [names |-> <<"qi", "tau", "n">>,
          lower |-> <<One, Fin(1, 10), Fin(1, 100)>>,
          upper |-> <<Mega, Int2F(100000), Int2F(2)>>],
     duong |->
         [names |-> <<"qi", "a", "m">>,
          lower |-> <<Fin(1, 10), Fin(1, 10), Fin(1, 2)>>,
          upper |-> <<Mega, Int2F(10), Int2F(3)>>]]

\* the FitResult dataclass; the message is kept as the parts of its f-string
FitResult(model_type, parameters, covariance, r_squared, rmse, aic, bic, residuals, success, message) ==
    [model_type |-> model_type, parameters |-> parameters, covariance |-> covariance,
     r_squared |-> r_squared, rmse |-> rmse, aic |-> aic, bic |-> bic,
     residuals |-> residuals, success |-> success, message |-> message]

\* the FitResult that reports no fit
NoFit(model_type, message) ==
    FitResult(model_type, <<>>, <<>>, Zero, PInf, PInf, PInf, <<>>, FALSE, message)

UnknownModelResult_GenericMessage(model_type) == NoFit(model_type, <<"Unknown model type">>)

\* lines 108-113
UnknownModelResult(model_type) == NoFit(model_type, <<"Unknown model type: ", model_type>>)

MinValidPoints == 3

\* lines 120-126
InsufficientResult(model_type) ==
    NoFit(model_type, <<"Insufficient valid data points (need >= 3)">>)

\* lines 165-171
FailedResult(model_type, e) == NoFit(model_type, <<"Optimization failed: ", e>>)

valid_mask_KeepsZeroRates(t, q) ==
    [i \in DOMAIN t |->
        IsFinite(t[i]) /\ IsFinite(q[i]) /\ FGe(q[i], Zero) /\ FGe(t[i], Zero)]

\* valid_mask: np.isfinite(t) & np.isfinite(q) & (q > 0) & (t >= 0)
valid_mask(t, q) ==
    [i \in DOMAIN t |->
        IsFinite(t[i]) /\ IsFinite(q[i]) /\ FGt(q[i], Zero) /\ FGe(t[i], Zero)]

\* arr[mask]
RECURSIVE MaskedPrefix(_, _, _)
MaskedPrefix(arr, mask, k) ==
    IF k = 0 THEN <<>>
    ELSE IF mask[k] THEN Append(MaskedPrefix(arr, mask, k - 1), arr[k])
    ELSE MaskedPrefix(arr, mask, k - 1)

Masked(arr, mask) == MaskedPrefix(arr, mask, Len(arr))

RECURSIVE NpMaxPrefix(_, _)
NpMaxPrefix(arr, k) ==
    IF k = 1 THEN arr[1] ELSE NpMaximum(NpMaxPrefix(arr, k - 1), arr[k])

\* np.max of a non-empty array
NpMax(arr) == NpMaxPrefix(arr, Len(arr))

RECURSIVE SumPrefix(_, _)
SumPrefix(arr, k) == IF k = 0 THEN Zero ELSE FAdd(SumPrefix(arr, k - 1), arr[k])

\* np.sum
NpSum(arr) == SumPrefix(arr, Len(arr))

Squares(arr) == [i \in DOMAIN arr |-> FMul(arr[i], arr[i])]

\* np.sqrt
NpSqrt(x) ==
    CASE IsExc(x) -> Exc
      [] IsNaN(x) -> NaN
      [] IsInf(x) -> IF x.n > 0 THEN PInf ELSE NaN
      [] x.n < 0 -> NaN
      [] OTHER -> SqrtFin(x)

\* _get_initial_guess; user_params is a dict, empty for None
get_initial_guess(t, q, model_type, user_params) ==
    LET qi_guess == q[1]
        last == Len(q)
        di_guess ==
            IF Len(q) > 1 /\ FGt(q[last], Zero) /\ FGt(qi_guess, Zero) /\ FGt(t[last], t[1])
            THEN PyMax(NpDiv(FNeg(NpLog(NpDiv(q[last], qi_guess))), FSub(t[last], t[1])),
                       Micro)
            ELSE Fin(1, 20)
        guess ==
            CASE model_type \in {"exponential", "harmonic"} ->
                   [qi |-> qi_guess, di |-> di_guess]
              [] model_type = "hyperbolic" ->
                   [qi |-> qi_guess, di |-> di_guess, b |-> Fin(4, 5)]
              [] model_type = "modified_hyperbolic" ->
                   [qi |-> qi_guess, di |-> di_guess, b |-> One, d_min |-> Fin(1, 200)]
              [] model_type = "sedm" ->
                   [qi |-> qi_guess, tau |-> PyMax(NpDiv(t[last], Int2F(2)), One),
                    n |-> Fin(1, 2)]
              [] model_type = "duong" ->
                   [qi |-> qi_guess, a |-> Fin(3, 2), m |-> Fin(6, 5)]
    IN [key \in DOMAIN guess |->
           IF key \in DOMAIN user_params THEN user_params[key] ELSE guess[key]]

\* _r_squared
r_squared(y_actual, y_predicted) ==
    LET mean == NpMean(y_actual)
        ss_res == NpSum(Squares([i \in DOMAIN y_actual |->
                                    FSub(y_actual[i], y_predicted[i])]))
        ss_tot == NpSum(Squares([i \in DOMAIN y_actual |-> FSub(y_actual[i], mean)]))
    IN IF FGt(ss_tot, Zero) THEN FSub(One, NpDiv(ss_res, ss_tot)) ELSE Zero

\* what the optimizers did, which the library decides: curve_fit converged or
\* raised, the global fit returned or raised, the covariance estimate of the
\* global fit was obtained or replaced by zeros, and the point returned
Optimized(curve_fit, global_fit, pcov, popt) ==
    [curve_fit |-> curve_fit, global_fit |-> global_fit, pcov |-> pcov, popt |-> popt]

Matrix_Empty(dim, cell) == <<>>

\* a dim-by-dim matrix as nested lists: np.zeros((k, k)).tolist() for the
\* cell "zero", curve_fit's estimate for the cell "estimated"
Matrix(dim, cell) == [r \in 1..dim |-> [c \in 1..dim |-> cell]]

\* what fit returned, with the stages it went through, the samples it kept
\* (lines 117-118) and the start point and bounds it gave the optimizer
FitReturn(result, stages, t_kept, q_kept, p0_list, lower, upper) ==
    [status |-> "returned", result |-> result, stages |-> stages,
     t_kept |-> t_kept, q_kept |-> q_kept,
     p0_list |-> p0_list, lower |-> lower, upper |-> upper]

\* fit left by an exception, after the stages it went through
FitRaised(error, stages, t_kept, q_kept, p0_list, lower, upper) ==
    [status |-> "raised", error |-> error, stages |-> stages,
     t_kept |-> t_kept, q_kept |-> q_kept,
     p0_list |-> p0_list, lower |-> lower, upper |-> upper]

\* the exceptions scipy's curve_fit raises (method "trf"): RuntimeError when the
\* minimisation fails, ValueError on a non-finite residual or invalid input
CurveFitErrors == {"RuntimeError", "ValueError"}

LocalSolveHandler_RuntimeErrorOnly == {"RuntimeError"}

\* line 161: except (RuntimeError, ValueError)
LocalSolveHandler == {"RuntimeError", "ValueError"}

\* lines 187-192: aic, from rss, n = len(q_clean) and k = len(popt)
fit_aic(rss, n, k) ==
    IF FGt(rss, Zero) /\ n > 0
    THEN FAdd(FMul(Int2F(n), NpLog(NpDiv(rss, Int2F(n)))), Int2F(2 * k))
    ELSE NInf

\* lines 187-192: bic
fit_bic(rss, n, k) ==
    IF FGt(rss, Zero) /\ n > 0
    THEN FAdd(FMul(Int2F(n), NpLog(NpDiv(rss, Int2F(n)))),
              FMul(Int2F(k), NpLog(Int2F(n))))
    ELSE NInf

\* lines 173-205: the result of a fit that converged at popt
ConvergedResult(model_type, t_clean, q_clean, popt, pcov) ==
    LET param_names == BOUNDS[model_type].names
        parameters ==
            [nm \in {param_names[i] : i \in DOMAIN param_names} |->
                popt[CHOOSE i \in DOMAIN param_names : param_names[i] = nm]]
        q_predicted == [i \in DOMAIN t_clean |-> RateAt(model_type, parameters, t_clean[i])]
        residuals == [i \in DOMAIN q_clean |-> FSub(q_clean[i], q_predicted[i])]
        n == Len(q_clean)
        k == Len(popt)
        r2 == r_squared(q_clean, q_predicted)
        rmse == NpSqrt(NpMean(Squares(residuals)))
        rss == NpSum(Squares(residuals))
    IN FitResult(model_type, parameters, Matrix(k, pcov), r2, rmse,
                 fit_aic(rss, n, k), fit_bic(rss, n, k), residuals,
                 TRUE, <<"Fit converged successfully">>)

\* DCAFitter.fit
fit(t, q, model_type, initial_params, opt) ==
    IF model_type \notin DOMAIN BOUNDS
    THEN FitReturn(UnknownModelResult(model_type), <<>>, <<>>, <<>>, <<>>, <<>>, <<>>)
    ELSE
    LET mask == valid_mask(t, q)
        t_masked == Masked(t, mask)
        q_clean == Masked(q, mask)
    IN IF Len(t_masked) < MinValidPoints
       THEN FitReturn(InsufficientResult(model_type), <<"clean">>, t_masked, q_clean,
                      <<>>, <<>>, <<>>)
       ELSE
       LET t_clean == IF model_type = "duong" /\ FEq(t_masked[1], Zero)
                      THEN [i \in DOMAIN t_masked |-> FAdd(t_masked[i], One)]
                      ELSE t_masked
           bounds_cfg == BOUNDS[model_type]
           qi_max == PyMax(FMul(NpMax(q_clean), Int2F(3)), bounds_cfg.upper[1])
           upper == [bounds_cfg.upper EXCEPT ![1] = qi_max]
           lower == bounds_cfg.lower
           p0 == get_initial_guess(t_clean, q_clean, model_type, initial_params)
           p0_list == [i \in DOMAIN bounds_cfg.names |->
                          PyMax(lower[i], PyMin(upper[i], p0[bounds_cfg.names[i]]))]
       IN IF opt.curve_fit = "ok"
          THEN FitReturn(ConvergedResult(model_type, t_clean, q_clean, opt.popt, "estimated"),
                         <<"clean", "curve_fit">>, t_masked, q_clean, p0_list, lower, upper)
          ELSE IF opt.curve_fit \notin LocalSolveHandler
          THEN FitRaised(opt.curve_fit, <<"clean", "curve_fit">>, t_masked, q_clean,
                         p0_list, lower, upper)
          ELSE IF opt.global_fit = "ok"
          THEN FitReturn(ConvergedResult(model_type, t_clean, q_clean, opt.popt, opt.pcov),
                         <<"clean", "curve_fit", "global_fit", "refine">>, t_masked, q_clean,
                         p0_list, lower, upper)
          ELSE FitReturn(FailedResult(model_type, opt.global_fit),
                         <<"clean", "curve_fit", "global_fit">>, t_masked, q_clean,
                         p0_list, lower, upper)

\* the keys of BOUNDS, in the order auto_fit iterates over them
ModelOrder ==
    <<"exponential", "hyperbolic", "harmonic", "modified_hyperbolic", "sedm", "duong">>

Kept_AppendsEveryResult(results, result) == Append(results, result)

\* lines 212-213: if result.success: results.append(result)
Kept(results, result) == IF result.success THEN Append(results, result) ELSE results

RECURSIVE InsertByAic_TiesFirst(_, _)
InsertByAic_TiesFirst(sorted, r) ==
    IF sorted = <<>> THEN <<r>>
    ELSE IF FLe(r.aic, sorted[Len(sorted)].aic)
    THEN Append(InsertByAic_TiesFirst(SubSeq(sorted, 1, Len(sorted) - 1), r),
                sorted[Len(sorted)])
    ELSE Append(sorted, r)

\* one insertion of the stable sort: r goes behind every element whose aic is
\* not greater than its own
RECURSIVE InsertByAic(_, _)
InsertByAic(sorted, r) ==
    IF sorted = <<>> THEN <<r>>
    ELSE IF FLt(r.aic, sorted[Len(sorted)].aic)
    THEN Append(InsertByAic(SubSeq(sorted, 1, Len(sorted) - 1), r), sorted[Len(sorted)])
    ELSE Append(sorted, r)

RECURSIVE SortedPrefix(_, _)
SortedPrefix(results, k) ==
    IF k = 0 THEN <<>> ELSE InsertByAic(SortedPrefix(results, k - 1), results[k])

\* line 214: sorted(results, key=lambda r: r.aic)
SortedByAic(results) == SortedPrefix(results, Len(results))

----------------------------------------------------------------------------
(* diagnostics.py: compute_diagnostics *)

DiagnosticMetrics(r2, adj_r2, rmse, nrmse, mae, mape, aic, bic, dw, n, n_params) ==
    [r_squared |-> r2, adjusted_r_squared |-> adj_r2, rmse |-> rmse, nrmse |-> nrmse,
     mae |-> mae, mape |-> mape, aic |-> aic, bic |-> bic, durbin_watson |-> dw,
     n_points |-> n, n_parameters |-> n_params]

\* line 51: y_actual - y_predicted
Residuals(y_actual, y_predicted) ==
    [i \in DOMAIN y_actual |-> FSub(y_actual[i], y_predicted[i])]

\* line 54
SsRes(y_actual, y_predicted) == NpSum(Squares(Residuals(y_actual, y_predicted)))

Centered(y_actual, mean) == [i \in DOMAIN y_actual |-> FSub(y_actual[i], mean)]

\* line 55
SsTot(y_actual) == NpSum(Squares(Centered(y_actual, NpMean(y_actual))))

\* line 58
diag_r2(ss_res, ss_tot) ==
    IF FGt(ss_tot, Zero) THEN FSub(One, PyDiv(ss_res, ss_tot)) ELSE Zero

\* lines 61-64
diag_adj_r2(r2, n, n_params) ==
    IF n > n_params + 1
    THEN FSub(One, PyDiv(FMul(FSub(One, r2), Int2F(n - 1)), Int2F(n - n_params - 1)))
    ELSE r2

RECURSIVE NpMinPrefix(_, _)
NpMinPrefix(arr, k) ==
    IF k = 1 THEN arr[1]
    ELSE IF IsNaN(arr[k]) \/ IsNaN(NpMinPrefix(arr, k - 1)) THEN NaN
    ELSE IF FLt(arr[k], NpMinPrefix(arr, k - 1)) THEN arr[k]
    ELSE NpMinPrefix(arr, k - 1)

\* np.min of a non-empty array
NpMin(arr) == NpMinPrefix(arr, Len(arr))

\* line 71
diag_nrmse(rmse, data_range) ==
    IF FGt(data_range, Zero) THEN PyDiv(rmse, data_range) ELSE PInf

NpAbs(x) == IF IsFinite(x) /\ x.n < 0 THEN FNeg(x) ELSE IF IsInf(x) THEN PInf ELSE x

AbsArr(arr) == [i \in DOMAIN arr |-> NpAbs(arr[i])]

\* line 77: y_actual != 0
nonzero_mask(y_actual) == [i \in DOMAIN y_actual |-> ~FEq(y_actual[i], Zero)]

Ratios(residuals, y) == [i \in DOMAIN y |-> NpAbs(NpDiv(residuals[i], y[i]))]

\* lines 78-83
diag_mape(residuals, y_actual, mask) ==
    IF \E i \in DOMAIN mask : mask[i]
    THEN FMul(NpMean(Ratios(Masked(residuals, mask), Masked(y_actual, mask))), Int2F(100))
    ELSE PInf

\* 2 * np.pi
TwoPi == Fin(44, 7)

\* line 87
log_likelihood(ss_res, n) ==
    FMul(PyDiv(Int2F(0 - n), Int2F(2)),
         FAdd(FAdd(NpLog(TwoPi), NpLog(PyDiv(ss_res, Int2F(n)))), One))

diag_aic_PenaltyPerSample(ss_res, n, n_params) ==
    IF FGt(ss_res, Zero) /\ n > 0
    THEN FAdd(FMul(Int2F(-2), log_likelihood(ss_res, n)), Int2F(2 * n_params * n))
    ELSE NInf

\* lines 86-88, 91
diag_aic(ss_res, n, n_params) ==
    IF FGt(ss_res, Zero) /\ n > 0
    THEN FAdd(FMul(Int2F(-2), log_likelihood(ss_res, n)), Int2F(2 * n_params))
    ELSE NInf

\* lines 86-87, 89, 92
diag_bic(ss_res, n, n_params) ==
    IF FGt(ss_res, Zero) /\ n > 0
    THEN FAdd(FMul(Int2F(-2), log_likelihood(ss_res, n)),
              FMul(Int2F(n_params), NpLog(Int2F(n))))
    ELSE NInf

\* np.diff
NpDiff(arr) == [i \in 1 .. (Len(arr) - 1) |-> FSub(arr[i + 1], arr[i])]

\* lines 98-102
diag_dw(residuals, ss_res) ==
    IF FGt(ss_res, Zero) /\ Len(residuals) > 1
    THEN NpDiv(NpSum(Squares(NpDiff(residuals))), ss_res)
    ELSE Int2F(2)

DiagReturned(metrics) == [status |-> "returned", result |-> metrics, error |-> ""]

DiagRaised(error) ==
    [status |-> "raised", error |-> error,
     result |-> DiagnosticMetrics(Zero, Zero, Zero, Zero, Zero, Zero, Zero, Zero, Zero, 0, 0)]

\* lines 50-116 once the residuals and the sums of squares are known
diagnostics_from(y_actual, residuals, ss_res, ss_tot, rmse, n_params) ==
    DiagReturned(DiagnosticMetrics(
        diag_r2(ss_res, ss_tot),
        diag_adj_r2(diag_r2(ss_res, ss_tot), Len(y_actual), n_params),
        rmse,
        diag_nrmse(rmse, FSub(NpMax(y_actual), NpMin(y_actual))),
        NpMean(AbsArr(residuals)),
        diag_mape(residuals, y_actual, nonzero_mask(y_actual)),
        diag_aic(ss_res, Len(y_actual), n_params),
        diag_bic(ss_res, Len(y_actual), n_params),
        diag_dw(residuals, ss_res),
        Len(y_actual), n_params))

\* compute_diagnostics, for arrays of one length; np.max of an empty array
\* (line 70) raises ValueError
compute_diagnostics(y_actual, y_predicted, n_params) ==
    IF Len(y_actual) = 0 THEN DiagRaised("ValueError")
    ELSE diagnostics_from(y_actual, Residuals(y_actual, y_predicted),
                          SsRes(y_actual, y_predicted), SsTot(y_actual),
                          NpSqrt(NpMean(Squares(Residuals(y_actual, y_predicted)))),
                          n_params)

----------------------------------------------------------------------------
(* services/production_service.py and api/v1/endpoints/dca.py: the tables *)

\* the tables: production_records, keyed by (well_id, production_date), each
\* row holding its team_id (NoTeam: no row), and dca_analyses
Tables(records, analyses) == [records |-> records, analyses |-> analyses]

NoTeam == 0

\* lines 40-46, 61-74 of upsert_production: the row of (well_id,
\* production_date) is updated whatever its team, or inserted for team_id
RECURSIVE UpsertRecords(_, _, _, _, _)
UpsertRecords(records, well_id, team_id, batch, k) ==
    IF k = 0 THEN records
    ELSE [UpsertRecords(records, well_id, team_id, batch, k - 1)
             EXCEPT ![<<well_id, batch[k]>>] = IF @ = NoTeam THEN team_id ELSE @]

production_changed_OnInsertOnly(records, well_id, batch) ==
    \E i \in DOMAIN batch : records[<<well_id, batch[i]>>] = NoTeam

\* lines 38, 65, 74: set for an updated row as for an inserted one
production_changed(records, well_id, batch) == Len(batch) > 0

\* lines 78-83: delete(DCAAnalysis) of the well and team
DeleteAnalyses(analyses, well_id, team_id) ==
    {a \in analyses : ~(a.well_id = well_id /\ a.team_id = team_id)}

\* upsert_production: the tables afterwards (the count returned is the length
\* of the batch)
upsert_production(db, well_id, team_id, batch) ==
    Tables(UpsertRecords(db.records, well_id, team_id, batch, Len(batch)),
           IF production_changed(db.records, well_id, batch)
           THEN DeleteAnalyses(db.analyses, well_id, team_id)
           ELSE db.analyses)

\* the rows delete_production removes: those of the well and team (no date range)
DeletedRows(records, well_id, team_id) ==
    {key \in DOMAIN records : key[1] = well_id /\ records[key] = team_id}

\* delete_production: the analyses are left alone
delete_production(db, well_id, team_id) ==
    Tables([key \in DOMAIN db.records |->
               IF key \in DeletedRows(db.records, well_id, team_id)
               THEN NoTeam ELSE db.records[key]],
           db.analyses)

\* _get_production_arrays, lines 31-44: the rows of the well and team
ProductionRows(records, well_id, team_id) ==
    {key \in DOMAIN records : key[1] = well_id /\ records[key] = team_id}

\* list_analyses: the analyses of the well and the caller's team
list_analyses(db, well_id, team_id) ==
    {a \in db.analyses : a.well_id = well_id /\ a.team_id = team_id}

\* create_analysis, lines 151-173: the analysis row added
DCAAnalysis(id, well_id, team_id) == [id |-> id, well_id |-> well_id, team_id |-> team_id]

\* auto_fit endpoint, lines 319-324: the forecast of a fitted model is made
\* with these arguments
AutoFitForecastMonths == 360
AutoFitEconomicLimit == Int2F(5)

\* lines 319-324
AutoFitForecast(r, forecast_months, economic_limit) ==
    generate_forecast(r.model_type, r.parameters, AutoFitForecastMonths,
                      AutoFitEconomicLimit, One)

\* lines 326-345: DCAAutoFitResponse, with the forecast points as three lists
DCAAutoFitResponse(r, forecast) ==
    [model_type |-> r.model_type, parameters |-> r.parameters, aic |-> r.aic,
     time_months |-> forecast.time, rate |-> forecast.rate,
     cumulative |-> forecast.cumulative]

\* lines 317-347: the response built from auto_fit's results
AutoFitResponses(results, forecast_months, economic_limit) ==
    [i \in DOMAIN results |->
        DCAAutoFitResponse(results[i],
                           AutoFitForecast(results[i], forecast_months, economic_limit))]

----------------------------------------------------------------------------
(* State *)

VARIABLES
    fcArgs,     \* the arguments of the generate_forecast call
    fcOut,      \* what that call returned or raised
    rng,        \* the position of the process-global numpy generator
    run,        \* the MonteCarloEUR.run calls in progress, by caller
    fitArgs,    \* the arguments of the DCAFitter.fit call
    fitOut,     \* what that call returned
    fitOpt,     \* what the optimizers did in that call
    af,         \* the DCAFitter.auto_fit call
    dg,         \* the compute_diagnostics call
    api,        \* the API service: its tables and the last requests
    ep,         \* the request to the auto-fit endpoint
    heap,       \* the objects the engine's callers share with it
    law         \* a decline law applied to one point

vars == <<fcArgs, fcOut, rng, run, fitArgs, fitOut, fitOpt, af, dg, api, ep, heap, law>>

Runs == {1, 2}

NoMcArgs ==
    [model_type |-> "", base_parameters |-> [qi |-> Zero], param_distributions |-> <<>>,
     param_bounds |-> {}, economic_limit |-> Zero, cum_to_date |-> Zero,
     iterations |-> 0, max_time_months |-> 1]

\* a caller that makes no call
NoRun ==
    [pc |-> "off", args |-> NoMcArgs, i |-> 0, j |-> 1, params |-> [qi |-> Zero],
     eur_samples |-> <<>>, param_samples |-> <<>>, result |-> NoResult,
     error |-> "", rng0 |-> 0, drawn |-> <<>>, used |-> <<>>]

NotCalled ==
    [status |-> "none", error |-> "", time |-> <<>>, rate |-> <<>>,
     cumulative |-> <<>>, t |-> <<>>, rates |-> <<>>, cum |-> <<>>]

NoFcArgs ==
    [model_type |-> "", parameters |-> [qi |-> Zero], forecast_months |-> 0,
     economic_limit |-> Zero, time_step |-> One]

NoFitArgs == [t |-> <<>>, q |-> <<>>, model_type |-> "", initial_params |-> <<>>]

FitNotCalled ==
    [status |-> "none", result |-> NoFit("", <<>>), stages |-> <<>>,
     t_kept |-> <<>>, q_kept |-> <<>>, p0_list |-> <<>>, lower |-> <<>>, upper |-> <<>>]

\* no optimizer has run
NotOptimized == Optimized("", "", "", <<>>)

\* auto_fit is not called
NoAutoFit ==
    [pc |-> "off", t |-> <<>>, q |-> <<>>, i |-> 0, results |-> <<>>,
     fitted |-> <<>>, out |-> <<>>, error |-> ""]

\* compute_diagnostics is not called
NoDiagnostics ==
    [status |-> "none", y_actual |-> <<>>, y_predicted |-> <<>>, n_params |-> 0,
     result |-> DiagnosticMetrics(Zero, Zero, Zero, Zero, Zero, Zero, Zero, Zero, Zero, 0, 0),
     error |-> ""]

\* no request
NoRequest == [op |-> "", well_id |-> 0, team_id |-> 0, status |-> "", count |-> 0]

\* the API serves no request
NoApi ==
    [pc |-> "off", db |-> Tables(<<>>, {}), last |-> NoRequest, before |-> NoRequest,
     had |-> 0, listed |-> {}, stale |-> {}]

\* the auto-fit endpoint serves no request
NoAutoFitRequest ==
    [pc |-> "off", t |-> <<>>, q |-> <<>>, forecast_months |-> 0,
     economic_limit |-> Zero, response |-> <<>>, error |-> ""]

\* what a caller passes to fit and to run
NoPassed ==
    [call |-> "", model_type |-> "", t |-> <<>>, q |-> <<>>, initial_params |-> <<>>,
     base_parameters |-> <<>>, param_distributions |-> <<>>]

\* no engine call is made on shared objects
NoHeap ==
    [pc |-> "off", BOUNDS |-> <<>>, passed |-> NoPassed,
     t |-> <<>>, q |-> <<>>, initial_params |-> <<>>,
     base_parameters |-> <<>>, param_distributions |-> <<>>,
     t_clean |-> <<>>, q_clean |-> <<>>, upper |-> <<>>, lower |-> <<>>,
     guess |-> <<>>, params |-> <<>>]

\* no decline law is applied
NoLaw ==
    [pc |-> "off", fn |-> "", model_type |-> "", p |-> <<>>, x |-> Zero,
     max_months |-> 0, out |-> Zero, searched |-> FALSE, bracket |-> Bracket(Zero, Zero, 0)]

fcVars == <<fcArgs, fcOut>>
mcVars == <<rng, run>>
fitVars == <<fitArgs, fitOut, fitOpt, af>>
svcVars == <<dg, api, ep>>
engVars == <<heap, law>>

\* the parts of the program a specification leaves out make no call
ForecastIdle == fcArgs = NoFcArgs /\ fcOut = NotCalled
MonteCarloIdle == rng = 0 /\ run = [r \in Runs |-> NoRun]
FitCallIdle == fitArgs = NoFitArgs /\ fitOut = FitNotCalled /\ fitOpt = NotOptimized
FitIdle == FitCallIdle /\ af = NoAutoFit
DiagnosticsIdle == dg = NoDiagnostics
ApiIdle == api = NoApi
EndpointIdle == ep = NoAutoFitRequest
ServiceIdle == DiagnosticsIdle /\ ApiIdle /\ EndpointIdle
EngineIdle == heap = NoHeap /\ law = NoLaw

----------------------------------------------------------------------------
(* The inputs explored *)

MaxForecastMonths == 4
MaxStepHalves == 4
MaxLimit == 2

QiVals == {Zero, Int2F(4)}
DiVals == {Int2F(-1), Zero, Fin(1, 2), One}
BVals == {Zero, Fin(1, 2), One}
DMinVals == {Fin(1, 2)}
TauVals == {Int2F(-2), Int2F(2)}
NVals == {Fin(1, 2), One}
AVals == {One, Int2F(10)}
MVals == {One, Int2F(2)}

\* the parameter dicts tried for a model: its own names over the value sets,
\* and a dict that lacks every name but qi
ParamDicts(model_type) ==
    {[qi |-> Int2F(4)]} \cup
    CASE model_type \in {"exponential", "harmonic"} -> [qi : QiVals, di : DiVals]
      [] model_type = "hyperbolic" -> [qi : QiVals, di : DiVals, b : BVals]
      [] model_type = "modified_hyperbolic" ->
           [qi : QiVals, di : DiVals, b : BVals, d_min : DMinVals]
      [] model_type = "sedm" -> [qi : QiVals, tau : TauVals, n : NVals]
      [] model_type = "duong" -> [qi : QiVals, a : AVals, m : MVals]
      [] OTHER -> {}

ModelTypes == KnownModels \cup {"arps"}
TimeSteps == {Fin(h, 2) : h \in 1..MaxStepHalves}
Limits == {Int2F(l) : l \in 0..MaxLimit} \cup {NaN}

FcArgSets ==
    UNION {[model_type : {mt}, parameters : ParamDicts(mt),
            forecast_months : 0..MaxForecastMonths,
            economic_limit : Limits, time_step : TimeSteps] : mt \in ModelTypes}

\* no call made yet
Pending ==
    [status |-> "pending", error |-> "", time |-> <<>>, rate |-> <<>>,
     cumulative |-> <<>>, t |-> <<>>, rates |-> <<>>, cum |-> <<>>]

----------------------------------------------------------------------------
(* The forecast generator: the arguments are drawn, the call is one step *)

InitForecast ==
    /\ fcArgs \in FcArgSets
    /\ fcOut = Pending
    /\ EngineIdle
    /\ MonteCarloIdle
    /\ FitIdle
    /\ ServiceIdle

GenerateForecast ==
    /\ fcOut.status = "pending"
    /\ fcOut' = generate_forecast(fcArgs.model_type, fcArgs.parameters,
                                  fcArgs.forecast_months, fcArgs.economic_limit,
                                  fcArgs.time_step)
    /\ UNCHANGED <<fcArgs, mcVars, fitVars, svcVars, engVars>>

NextForecast == GenerateForecast

SpecForecast == InitForecast /\ [][NextForecast]_vars

----------------------------------------------------------------------------
(* MonteCarloEUR.run, one step per draw, per sample and for the aggregation *)

MaxIterations == 3
MaxTimeMonths == 2

Dist(name, config) == [name |-> name, config |-> config]

\* the distribution dicts tried (in dict order), each with its param_bounds
Scenarios ==
    { [dists |-> <<>>, bounds |-> {}],
      [dists |-> <<Dist("di", [type |-> "normal", mean |-> Fin(1, 2), std |-> Fin(1, 2)])>>,
       bounds |-> {}],
      [dists |-> <<Dist("di", [type |-> "normal", mean |-> Zero, std |-> One])>>,
       bounds |-> {}],
      [dists |-> <<Dist("di", [type |-> "normal", mean |-> Zero, std |-> One])>>,
       bounds |-> {<<"di", Zero, One>>}],
      [dists |-> <<Dist("qi", [type |-> "uniform", min |-> Int2F(6), max |-> Int2F(2)]),
                   Dist("di", [type |-> "normal", mean |-> One, std |-> Fin(1, 2)])>>,
       bounds |-> {}],
      [dists |-> <<Dist("qi", [type |-> "lognormal", mean |-> Int2F(4), std |-> One]),
                   Dist("di", [type |-> "triangular", min |-> Zero,
                               mode |-> Fin(1, 2), max |-> One])>>,
       bounds |-> {}],
      [dists |-> <<Dist("qi", [type |-> "normal", mean |-> Int2F(4), std |-> One]),
                   Dist("di", [type |-> "gauss", mean |-> One, std |-> One])>>,
       bounds |-> {}],
      [dists |-> <<Dist("di", [mean |-> Fin(1, 2), std |-> Fin(1, 2)])>>, bounds |-> {}],
      [dists |-> <<Dist("qi", [type |-> "normal", mean |-> Int2F(4)])>>, bounds |-> {}],
      [dists |-> <<Dist("di", [type |-> "uniform", min |-> Zero])>>, bounds |-> {}],
      [dists |-> <<Dist("qi", [type |-> "lognormal", mean |-> Int2F(4)])>>, bounds |-> {}],
      [dists |-> <<Dist("di", [type |-> "triangular", min |-> Zero, max |-> One])>>,
       bounds |-> {}] }

McBaseParams(model_type) ==
    CASE model_type \in {"exponential", "harmonic"} ->
           {[qi |-> Int2F(4), di |-> Fin(1, 2)], [qi |-> Int2F(4), di |-> Int2F(-1)],
            [qi |-> Int2F(4)]}
      [] model_type = "hyperbolic" -> {[qi |-> Int2F(4), di |-> Zero, b |-> Fin(1, 2)]}
      [] OTHER -> {[qi |-> Int2F(4)]}

McModels == {"exponential", "hyperbolic", "harmonic", "arps"}
CumToDate == {Int2F(5)}

\* the hyperbolic law is run with its decline left unsampled: with b = 1/2 its
\* rates at the search's midpoints are squares beyond the integers' width
McScenarios(model_type) ==
    IF model_type = "hyperbolic"
    THEN {sc \in Scenarios : \A k \in DOMAIN sc.dists : sc.dists[k].name # "di"}
    ELSE Scenarios

\* the limits: a positive one, which sends the run into the binary search,
\* where every sample is the same; the search's results are ratios too long
\* for the arithmetic that mixes different ones in a percentile
McLimits(sc) == IF Len(sc.dists) = 0 THEN {Int2F(l) : l \in 0..MaxLimit} ELSE {Zero}

McArgsOf(mt) ==
    UNION {[model_type : {mt}, base_parameters : McBaseParams(mt),
            param_distributions : {sc.dists}, param_bounds : {sc.bounds},
            economic_limit : McLimits(sc),
            cum_to_date : CumToDate, iterations : 0..MaxIterations,
            max_time_months : 1..MaxTimeMonths] : sc \in McScenarios(mt)}

McArgSets == UNION {McArgsOf(mt) : mt \in McModels}

\* a caller about to call run(args)
Calling(args) == [NoRun EXCEPT !.pc = "idle", !.args = args]

DistNames(dists) == {dists[k].name : k \in DOMAIN dists}

\* lines 66-73: the dispatch, and the arrays
StartRun(r) ==
    /\ run[r].pc = "idle"
    /\ LET a == run[r].args
       IN IF a.model_type \notin KnownModels
          THEN run' = [run EXCEPT ![r].pc = "raised", ![r].error = "ValueError"]
          ELSE run' = [run EXCEPT ![r].pc = "loop",
                                  ![r].params = a.base_parameters,
                                  ![r].param_samples =
                                      [nm \in DistNames(a.param_distributions) |-> <<>>],
                                  ![r].rng0 = rng]
    /\ UNCHANGED <<rng, fcVars, fitVars, svcVars, engVars>>

\* params[param_name] = sample
SetParam(params, name, v) ==
    [nm \in DOMAIN params \cup {name} |-> IF nm = name THEN v ELSE params[nm]]

\* lines 78-84: one parameter of the current iteration is drawn and stored
SampleStep(r) ==
    LET a == run[r].args
        d == a.param_distributions[run[r].j]
        s == sample_parameter(d.config, RawAt(rng))
        sample ==
            IF \E bd \in a.param_bounds : bd[1] = d.name
            THEN LET bd == CHOOSE x \in a.param_bounds : x[1] = d.name
                 IN NpClip(s.v, bd[2], bd[3])
            ELSE s.v
    IN /\ run[r].pc = "loop"
       /\ run[r].i < a.iterations
       /\ run[r].j <= Len(a.param_distributions)
       /\ IF s.err # ""
          THEN /\ run' = [run EXCEPT ![r].pc = "raised", ![r].error = s.err]
               /\ UNCHANGED rng
          ELSE /\ run' = [run EXCEPT
                            ![r].params = SetParam(@, d.name, sample),
                            ![r].param_samples[d.name] = Append(@, sample),
                            ![r].j = @ + 1,
                            ![r].drawn = Append(@, RawAt(rng))]
               /\ rng' = (rng + 1) % RngPeriod
       /\ UNCHANGED <<fcVars, fitVars, svcVars, engVars>>

\* lines 86-104: the sample of the current iteration
EvalStep(r) ==
    LET a == run[r].args
    IN /\ run[r].pc = "loop"
       /\ run[r].i < a.iterations
       /\ run[r].j > Len(a.param_distributions)
       /\ run' = [run EXCEPT
                    ![r].eur_samples =
                        Append(@, SampleEur(a.model_type, run[r].params, a.economic_limit,
                                            a.cum_to_date, a.max_time_months)),
                    ![r].used = Append(@, run[r].params),
                    ![r].i = @ + 1,
                    ![r].j = 1,
                    ![r].params = a.base_parameters]
       /\ UNCHANGED <<rng, fcVars, fitVars, svcVars, engVars>>

\* lines 110-119: the aggregation.  On an empty array np.percentile raises
\* (IndexError) or returns nan, by the numpy version.
FinishRun(r) ==
    LET a == run[r].args
    IN /\ run[r].pc = "loop"
       /\ run[r].i = a.iterations
       /\ \/ /\ a.iterations > 0
             /\ run' = [run EXCEPT ![r].pc = "done",
                          ![r].result = MonteCarloResult(run[r].eur_samples, a.iterations,
                                                         run[r].param_samples)]
          \/ /\ a.iterations = 0
             /\ run' = [run EXCEPT ![r].pc = "done",
                                   ![r].result = EmptyResult(run[r].param_samples)]
          \/ /\ a.iterations = 0
             /\ run' = [run EXCEPT ![r].pc = "raised", ![r].error = "IndexError"]
       /\ UNCHANGED <<rng, fcVars, fitVars, svcVars, engVars>>

NextMC == \E r \in Runs : StartRun(r) \/ SampleStep(r) \/ EvalStep(r) \/ FinishRun(r)

\* one caller
InitMC ==
    /\ rng \in 0..(RngPeriod - 1)
    /\ \E args \in McArgSets : run = [r \in Runs |-> IF r = 1 THEN Calling(args) ELSE NoRun]
    /\ ForecastIdle
    /\ EngineIdle
    /\ FitIdle
    /\ ServiceIdle

SpecMC == InitMC /\ [][NextMC]_vars

\* two callers in one process, their steps interleaved
ParScenarios ==
    {sc \in Scenarios :
        /\ sc.bounds = {}
        /\ Len(sc.dists) = 2
        /\ sc.dists[1].config.type \in {"uniform", "normal"}}

ParArgSets ==
    [model_type : {"harmonic", "arps"},
     base_parameters : {[qi |-> Int2F(4), di |-> Fin(1, 2)]},
     param_distributions : {sc.dists : sc \in ParScenarios},
     param_bounds : {{}},
     economic_limit : {Zero},
     cum_to_date : CumToDate,
     iterations : {0, MaxIterations - 1},
     max_time_months : {MaxTimeMonths}]

InitMCPar ==
    /\ rng \in 0..(RngPeriod - 1)
    /\ \E a1 \in ParArgSets, a2 \in ParArgSets :
           run = [r \in Runs |-> Calling(IF r = 1 THEN a1 ELSE a2)]
    /\ ForecastIdle
    /\ EngineIdle
    /\ FitIdle
    /\ ServiceIdle

SpecMCPar == InitMCPar /\ [][NextMC]_vars

----------------------------------------------------------------------------
(* Properties of MonteCarloEUR.run *)

Returned(r) == run[r].pc = "done"

\* C1: every result that run returns for at least one iteration has
\* eur_p10 >= eur_p50 >= eur_p90.
C1_PercentilesOrdered ==
    \A r \in Runs :
        Returned(r) /\ run[r].args.iterations > 0 =>
            /\ FGe(run[r].result.eur_p10, run[r].result.eur_p50)
            /\ FGe(run[r].result.eur_p50, run[r].result.eur_p90)

\* the q-th percentile of finite samples by its definition: the value at rank
\* (n - 1) q / 100 of the samples in ascending order, ranks counted from 0 and
\* a fractional rank read linearly between its two neighbours
Ascending(arr) ==
    CHOOSE srt \in [DOMAIN arr -> {arr[i] : i \in DOMAIN arr}] :
        /\ \A v \in {arr[i] : i \in DOMAIN arr} :
               Cardinality({i \in DOMAIN arr : arr[i] = v})
                   = Cardinality({i \in DOMAIN arr : srt[i] = v})
        /\ \A i \in DOMAIN arr : i > 1 => FLe(srt[i - 1], srt[i])

Percentile(arr, q) ==
    LET srt == Ascending(arr)
        num == (Len(arr) - 1) * q
        below == num \div 100
        above == IF num % 100 = 0 THEN below ELSE below + 1
    IN FAdd(srt[below + 1],
            FMul(Fin(num % 100, 100), FSub(srt[above + 1], srt[below + 1])))

AllFinite(arr) == \A i \in DOMAIN arr : IsFinite(arr[i])

\* C2: eur_p90 is the 10th, eur_p50 the 50th and eur_p10 the 90th percentile
\* of the sample array, and that array is the one returned as
\* eur_distribution (a NaN sample makes all three NaN).
C2_PercentileLabels ==
    \A r \in Runs :
        Returned(r) /\ run[r].args.iterations > 0 =>
            LET res == run[r].result
                dist == res.eur_distribution
            IN /\ dist = run[r].eur_samples
               /\ Len(dist) = run[r].args.iterations
               /\ AllFinite(dist) =>
                      /\ res.eur_p90 = Percentile(dist, 10)
                      /\ res.eur_p50 = Percentile(dist, 50)
                      /\ res.eur_p10 = Percentile(dist, 90)
               /\ (\E i \in DOMAIN dist : IsNaN(dist[i])) =>
                      IsNaN(res.eur_p90) /\ IsNaN(res.eur_p50) /\ IsNaN(res.eur_p10)

\* a run returned from finite samples that are not all equal, where the 90th
\* and the 10th percentile differ
C2_Witness ==
    \E r \in Runs :
        /\ Returned(r)
        /\ run[r].args.iterations = MaxIterations
        /\ AllFinite(run[r].result.eur_distribution)
        /\ FGt(run[r].result.eur_p10, run[r].result.eur_p50)
        /\ FGt(run[r].result.eur_p50, run[r].result.eur_p90)

\* what a distribution entry must carry, by its type
RequiredFields(dist_type) ==
    CASE dist_type \in {"normal", "lognormal"} -> {"mean", "std"}
      [] dist_type = "uniform" -> {"min", "max"}
      [] dist_type = "triangular" -> {"min", "mode", "max"}

ValidConfig(config) ==
    /\ "type" \in DOMAIN config
    /\ config.type \in {"normal", "lognormal", "uniform", "triangular"}
    /\ RequiredFields(config.type) \subseteq DOMAIN config

InvalidDistributions(dists) == \E k \in DOMAIN dists : ~ValidConfig(dists[k].config)

\* C3: with an invalid entry in param_distributions run never returns a
\* result, draws nothing and computes no sample; once it has left its loop it
\* has raised.
C3_InvalidConfigRaisesFirst ==
    \A r \in Runs :
        run[r].pc # "off" /\ InvalidDistributions(run[r].args.param_distributions) =>
            /\ ~Returned(r)
            /\ run[r].drawn = <<>>
            /\ run[r].eur_samples = <<>>
            /\ run[r].pc = "raised" => run[r].error \in {"ValueError", "KeyError"}

\* C4: every sample of a run is finite: cum_to_date, or cum_to_date plus a
\* finite cumulative volume.
C4_SamplesFinite ==
    \A r \in Runs : \A k \in DOMAIN run[r].eur_samples : IsFinite(run[r].eur_samples[k])

\* C5: the draws a run sees are those of its own stream from where it
\* started, whatever the other run does.
C5_DrawsIndependentOfOtherRun ==
    \A r \in Runs :
        \A k \in DOMAIN run[r].drawn : run[r].drawn[k] = RawAt(run[r].rng0 + k - 1)

----------------------------------------------------------------------------
(* DCAFitter.fit: the arguments are drawn, the call is one step *)

Series(ts, qs) == [t |-> ts, q |-> qs]

\* the production series tried: clean ones, ones that lose points to the
\* mask, too short ones, a flat one, one the decline laws fit exactly
FitSeries ==
    { Series(<<>>, <<>>),
      Series(<<Zero, One, Int2F(2)>>, <<Int2F(4), Int2F(2), One>>),
      Series(<<One, Int2F(2), Int2F(3)>>, <<Int2F(4), Int2F(2), One>>),
      Series(<<Zero, One, Int2F(2)>>, <<Int2F(4), Fin(8, 3), Int2F(2)>>),
      Series(<<Zero, One, Int2F(2), Int2F(3)>>, <<Int2F(4), NaN, Int2F(2), One>>),
      Series(<<Zero, One, Int2F(2)>>, <<Int2F(4), Zero, Int2F(2)>>),
      Series(<<Int2F(-1), Zero, One, Int2F(2)>>, <<Int2F(4), Int2F(3), Int2F(2), One>>),
      Series(<<Zero, One, PInf, Int2F(2)>>, <<Int2F(4), Int2F(-2), One, One>>),
      Series(<<Zero, One, Int2F(2)>>, <<Int2F(2), Int2F(2), Int2F(2)>>) }

FitModelTypes == KnownModels \cup {"arps", ""}

InitialParams == {<<>>, [qi |-> Int2F(2)], [zz |-> One]}

FitArgSets ==
    {[t |-> sr.t, q |-> sr.q, model_type |-> mt, initial_params |-> ip] :
        sr \in FitSeries, mt \in FitModelTypes, ip \in InitialParams}

\* points inside every model's bounds at which an optimizer may stop
PoptCandidates(model_type) ==
    CASE model_type = "exponential" ->
           {<<Int2F(4), Fin(1, 2)>>, <<Int2F(2), One>>, <<Int2F(16), Fin(1, 2)>>}
      [] model_type = "harmonic" -> {<<Int2F(4), Fin(1, 2)>>, <<Int2F(2), One>>}
      [] model_type = "hyperbolic" ->
           {<<Int2F(4), Fin(1, 2), One>>, <<Int2F(4), One, Fin(1, 2)>>}
      [] model_type = "modified_hyperbolic" ->
           {<<Int2F(4), One, One, Fin(1, 2)>>, <<Int2F(4), Fin(1, 2), One, Fin(1, 2)>>}
      [] model_type = "sedm" -> {<<Int2F(4), Int2F(2), One>>, <<Int2F(2), One, One>>}
      [] model_type = "duong" -> {<<Int2F(4), One, Int2F(2)>>, <<Int2F(2), One, Int2F(2)>>}
      [] OTHER -> {<<>>}

OptimizerOutcomes(model_type) ==
    {Optimized(cf, gf, pc, popt) :
        cf \in {"ok"} \cup CurveFitErrors,
        gf \in {"ok", "RuntimeError"},
        pc \in {"estimated", "zero"},
        popt \in PoptCandidates(model_type)}

FitPending == [FitNotCalled EXCEPT !.status = "pending"]

InitFit ==
    /\ fitArgs \in FitArgSets
    /\ fitOut = FitPending
    /\ fitOpt = NotOptimized
    /\ af = NoAutoFit
    /\ ForecastIdle
    /\ EngineIdle
    /\ MonteCarloIdle
    /\ ServiceIdle

Fit ==
    /\ fitOut.status = "pending"
    /\ \E opt \in OptimizerOutcomes(fitArgs.model_type) :
           /\ fitOut' = fit(fitArgs.t, fitArgs.q, fitArgs.model_type,
                            fitArgs.initial_params, opt)
           /\ fitOpt' = opt
    /\ UNCHANGED <<fitArgs, af, fcVars, mcVars, svcVars, engVars>>

NextFit == Fit

SpecFit == InitFit /\ [][NextFit]_vars

----------------------------------------------------------------------------
(* DCAFitter.auto_fit: one step for each model's fit, one for the return *)

\* the series auto_fit is called with: too short ones, one that several laws
\* fit exactly, one that loses a point to the mask
AutoFitSeries ==
    { Series(<<>>, <<>>),
      Series(<<Zero, One, Int2F(2)>>, <<Int2F(4), Zero, Int2F(2)>>),
      Series(<<Zero, One, Int2F(2)>>, <<Int2F(4), Fin(8, 3), Int2F(2)>>),
      Series(<<Int2F(-1), Zero, One, Int2F(2)>>, <<Int2F(4), Int2F(3), Int2F(2), One>>) }

\* the local solve converges at one of the candidate points, or both
\* optimizers fail
AutoFitOutcomes(model_type) ==
    {opt \in OptimizerOutcomes(model_type) :
        opt.pcov = "zero" /\ opt.curve_fit # "RuntimeError" /\ opt.global_fit # "ok"}

InitAutoFit ==
    /\ \E sr \in AutoFitSeries : af = [NoAutoFit EXCEPT !.pc = "loop", !.t = sr.t, !.q = sr.q]
    /\ FitCallIdle
    /\ ForecastIdle
    /\ EngineIdle
    /\ MonteCarloIdle
    /\ ServiceIdle

\* lines 211-213, with what self.fit returned or raised
AutoFitAfter(a, ret) ==
    IF ret.status = "raised"
    THEN [a EXCEPT !.pc = "raised", !.error = ret.error]
    ELSE [a EXCEPT !.i = @ + 1,
                   !.results = Kept(@, ret.result),
                   !.fitted = Append(@, ret.result)]

\* lines 210-213: one iteration of the loop over BOUNDS, the optimizers doing
\* one of the things in Outcomes
AutoFitIteration(Outcomes(_)) ==
    /\ af.pc = "loop"
    /\ af.i < Len(ModelOrder)
    /\ \E opt \in Outcomes(ModelOrder[af.i + 1]) :
           af' = AutoFitAfter(af, fit(af.t, af.q, ModelOrder[af.i + 1], <<>>, opt))
    /\ UNCHANGED <<fitArgs, fitOut, fitOpt, fcVars, mcVars, svcVars, engVars>>

AutoFitStep == AutoFitIteration(AutoFitOutcomes)

\* line 214
AutoFitReturn ==
    /\ af.pc = "loop"
    /\ af.i = Len(ModelOrder)
    /\ af' = [af EXCEPT !.pc = "done", !.out = SortedByAic(af.results)]
    /\ UNCHANGED <<fitArgs, fitOut, fitOpt, fcVars, mcVars, svcVars, engVars>>

NextAutoFit == AutoFitStep \/ AutoFitReturn

SpecAutoFit == InitAutoFit /\ [][NextAutoFit]_vars

----------------------------------------------------------------------------
(* compute_diagnostics: one call on two arrays of one length *)

MaxPoints == 3

DiagVals == {Zero, One, Int2F(2)}

NParams == {0, 1, 3}

DiagArrays(n) == [1 .. n -> DiagVals]

\* pairs of arrays of finite values, and pairs with a NaN in one of the arrays
DiagPair(a, p) == [y_actual |-> a, y_predicted |-> p]

DiagInputs ==
    {DiagPair(a, p) : a \in DiagArrays(0), p \in DiagArrays(0)}
    \cup UNION {{DiagPair(a, p) : a \in DiagArrays(n), p \in DiagArrays(n)} : n \in 1 .. MaxPoints}
    \cup {DiagPair(<<One, NaN>>, <<One, One>>), DiagPair(<<One, Int2F(2)>>, <<NaN, One>>)}

DiagPending(y_actual, y_predicted, n_params) ==
    [NoDiagnostics EXCEPT !.status = "pending", !.y_actual = y_actual,
                          !.y_predicted = y_predicted, !.n_params = n_params]

DiagAfter(d, ret) == [d EXCEPT !.status = ret.status, !.result = ret.result, !.error = ret.error]

InitDiagnostics ==
    /\ \E sr \in DiagInputs : \E k \in NParams : dg = DiagPending(sr.y_actual, sr.y_predicted, k)
    /\ ApiIdle
    /\ EndpointIdle
    /\ ForecastIdle
    /\ EngineIdle
    /\ MonteCarloIdle
    /\ FitIdle

ComputeDiagnostics ==
    /\ dg.status = "pending"
    /\ dg' = DiagAfter(dg, compute_diagnostics(dg.y_actual, dg.y_predicted, dg.n_params))
    /\ UNCHANGED <<api, ep, fcVars, mcVars, fitVars, engVars>>

NextDiagnostics == ComputeDiagnostics

SpecDiagnostics == InitDiagnostics /\ [][NextDiagnostics]_vars

----------------------------------------------------------------------------
(* The production and DCA endpoints: each request is one transaction *)

Wells == {1, 2}
Teams == {1, 2}
Dates == {1, 2, 3}

MaxAnalyses == 2

\* line 43 of _get_production_arrays
MinRecords == 3

\* the batches posted: a whole history, one month, nothing
Batches == {<<1, 2, 3>>, <<3>>, <<>>}

\* wells.team_id: the team a well belongs to
WellTeam == [well_id \in Wells |-> well_id]

Request(op, well_id, team_id, status, count) ==
    [op |-> op, well_id |-> well_id, team_id |-> team_id, status |-> status, count |-> count]

\* a request that wrote or removed production records of its well
ChangedProduction(request) ==
    /\ request.op \in {"upsert", "delete", "import"}
    /\ request.status = "success"
    /\ request.count >= 1

\* the stored analyses made before the last change of their well's production
\* records: those that were so already, and after a change every analysis of
\* the well that outlives it
StaleAfter(a, db, request) ==
    {id \in {x.id : x \in db.analyses} :
        \/ id \in a.stale
        \/ /\ ChangedProduction(request)
           /\ \E x \in a.db.analyses : x.id = id /\ x.well_id = request.well_id}

\* the service after a request: its tables, the request, for a listing the
\* request before it when that was an upsert, for an upsert the number of
\* analyses of its well and team stored when it arrived, what a listing
\* returned, and the analyses that are older than their well's production
\* records
Served(a, db, request, listed) ==
    [pc |-> "on", db |-> db, last |-> request,
     before |-> IF request.op = "list" /\ a.last.op = "upsert" THEN a.last ELSE NoRequest,
     had |-> IF request.op = "upsert"
             THEN Cardinality(list_analyses(a.db, request.well_id, request.team_id))
             ELSE 0,
     listed |-> listed,
     stale |-> StaleAfter(a, db, request)]

FreeIds(analyses) == (1 .. MaxAnalyses) \ {a.id : a \in analyses}

InitApi ==
    /\ api = [NoApi EXCEPT !.pc = "on",
                           !.db = Tables([key \in Wells \X Dates |-> NoTeam], {})]
    /\ DiagnosticsIdle
    /\ EndpointIdle
    /\ ForecastIdle
    /\ EngineIdle
    /\ MonteCarloIdle
    /\ FitIdle

\* POST /wells/{well_id}/production
UpsertProduction ==
    /\ api.pc = "on"
    /\ \E well_id \in Wells : \E team_id \in Teams : \E batch \in Batches :
          api' = Served(api, upsert_production(api.db, well_id, team_id, batch),
                        Request("upsert", well_id, team_id, "success", Len(batch)), {})
    /\ UNCHANGED <<dg, ep, fcVars, mcVars, fitVars, engVars>>

\* DELETE /wells/{well_id}/production
DeleteProduction ==
    /\ api.pc = "on"
    /\ \E well_id \in Wells : \E team_id \in Teams :
          api' = Served(api, delete_production(api.db, well_id, team_id),
                        Request("delete", well_id, team_id, "success",
                                Cardinality(DeletedRows(api.db.records, well_id, team_id))),
                        {})
    /\ UNCHANGED <<dg, ep, fcVars, mcVars, fitVars, engVars>>

\* POST /wells/{well_id}/dca: fewer than 3 rows, or a fit without success (the
\* optimizers decide), raise EngineException and the transaction is rolled back
CreateAnalysis ==
    /\ api.pc = "on"
    /\ FreeIds(api.db.analyses) # {}
    /\ \E well_id \in Wells : \E team_id \in Teams : \E success \in BOOLEAN :
          api' = IF Cardinality(ProductionRows(api.db.records, well_id, team_id)) < MinRecords
                    \/ ~success
                 THEN Served(api, api.db,
                             Request("create", well_id, team_id, "EngineException", 0), {})
                 ELSE Served(api,
                             Tables(api.db.records,
                                    api.db.analyses \cup
                                       {DCAAnalysis(CHOOSE id \in FreeIds(api.db.analyses) :
                                                       \A other \in FreeIds(api.db.analyses) : id <= other,
                                                    well_id, team_id)}),
                             Request("create", well_id, team_id, "success", 1), {})
    /\ UNCHANGED <<dg, ep, fcVars, mcVars, fitVars, engVars>>

\* GET /wells/{well_id}/dca
ListAnalyses ==
    /\ api.pc = "on"
    /\ \E well_id \in Wells : \E team_id \in Teams :
          api' = Served(api, api.db,
                        Request("list", well_id, team_id, "success", 0),
                        list_analyses(api.db, well_id, team_id))
    /\ UNCHANGED <<dg, ep, fcVars, mcVars, fitVars, engVars>>

\* POST /imports/upload in import mode: a file of one month, for a well of the
\* caller's team (else ValidationException), replacing the team's records or not
ImportProduction ==
    /\ api.pc = "on"
    /\ \E well_id \in Wells : \E team_id \in Teams : \E replace_existing \in BOOLEAN :
          api' = IF WellTeam[well_id] # team_id
                 THEN Served(api, api.db,
                             Request("import", well_id, team_id, "ValidationException", 0), {})
                 ELSE Served(api,
                             upsert_production(
                                 IF replace_existing
                                 THEN delete_production(api.db, well_id, team_id)
                                 ELSE api.db,
                                 well_id, team_id, <<3>>),
                             Request("import", well_id, team_id, "success", 1), {})
    /\ UNCHANGED <<dg, ep, fcVars, mcVars, fitVars, engVars>>

NextApi ==
    UpsertProduction \/ DeleteProduction \/ CreateAnalysis \/ ListAnalyses
    \/ ImportProduction

SpecApi == InitApi /\ [][NextApi]_vars

----------------------------------------------------------------------------
(* POST /dca/auto-fit: the production arrays are read, auto_fit runs its
   loop, the response is built *)

\* the arrays _get_production_arrays reads for the request: months since the
\* first record and positive rates
EndpointSeries ==
    { Series(<<Zero, One>>, <<Int2F(4), Int2F(2)>>),
      Series(<<Zero, One, Int2F(2)>>, <<Int2F(4), Fin(8, 3), Int2F(2)>>) }

\* for each model the local solve converges at the candidate point of largest
\* qi, or both optimizers fail
EndpointOutcomes(model_type) ==
    {opt \in AutoFitOutcomes(model_type) :
        opt.popt = CHOOSE p \in PoptCandidates(model_type) :
                      \A o \in PoptCandidates(model_type) : FLe(o[1], p[1])}

\* forecast_months >= 1 and economic_limit >= 0, as the request schema demands
RequestMonths == {1, 2}
RequestLimits == {Zero, Int2F(5)}

InitAutoFitEndpoint ==
    /\ \E sr \in EndpointSeries : \E fm \in RequestMonths : \E el \in RequestLimits :
          ep = [NoAutoFitRequest EXCEPT !.pc = "received", !.t = sr.t, !.q = sr.q,
                                        !.forecast_months = fm, !.economic_limit = el]
    /\ af = NoAutoFit
    /\ FitCallIdle
    /\ DiagnosticsIdle
    /\ ApiIdle
    /\ ForecastIdle
    /\ EngineIdle
    /\ MonteCarloIdle

\* lines 310-315: fewer than 3 points raise EngineException, else auto_fit is called
AutoFitReceive ==
    /\ ep.pc = "received"
    /\ IF Len(ep.t) < MinRecords
       THEN /\ ep' = [ep EXCEPT !.pc = "raised", !.error = "EngineException"]
            /\ UNCHANGED af
       ELSE /\ ep' = [ep EXCEPT !.pc = "fitting"]
            /\ af' = [NoAutoFit EXCEPT !.pc = "loop", !.t = ep.t, !.q = ep.q]
    /\ UNCHANGED <<fitArgs, fitOut, fitOpt, dg, api, fcVars, mcVars, engVars>>

\* lines 317-347
AutoFitRespond ==
    /\ ep.pc = "fitting"
    /\ af.pc = "done"
    /\ ep' = [ep EXCEPT !.pc = "responded",
                        !.response = AutoFitResponses(af.out, ep.forecast_months,
                                                      ep.economic_limit)]
    /\ UNCHANGED <<fitVars, dg, api, fcVars, mcVars, engVars>>

\* the iteration of auto_fit's loop within the request
EndpointFitStep == AutoFitIteration(EndpointOutcomes) /\ ep.pc = "fitting"

NextAutoFitEndpoint == AutoFitReceive \/ EndpointFitStep \/ AutoFitReturn \/ AutoFitRespond

SpecAutoFitEndpoint == InitAutoFitEndpoint /\ [][NextAutoFitEndpoint]_vars

----------------------------------------------------------------------------
(* The objects a call shares with its caller.  The heap holds the class-level
   BOUNDS table, the arguments of the last call and the objects the call
   made; a reference is the path of names that leads to an object. *)

\* bounds_cfg[field] of a model: a list inside the class-level table
BoundsRef(model_type, field) == <<"BOUNDS", model_type, field>>

\* an argument or a local
NameRef(name) == <<name>>

Load(h, ref) == IF Len(ref) = 1 THEN h[ref[1]] ELSE h[ref[1]][ref[2]][ref[3]]

\* name = value: the name is bound to a new object
Bind(h, name, value) == [h EXCEPT ![name] = value]

\* obj[index] = value on a list
StoreIndex(h, ref, index, value) ==
    IF Len(ref) = 1
    THEN [h EXCEPT ![ref[1]][index] = value]
    ELSE [h EXCEPT ![ref[1]][ref[2]][ref[3]][index] = value]

\* a dict with one key set
SetItem(obj, key, value) ==
    [k \in DOMAIN obj \cup {key} |-> IF k = key THEN value ELSE obj[k]]

\* obj[key] = value on a dict
StoreKey(h, ref, key, value) ==
    IF Len(ref) = 1
    THEN [h EXCEPT ![ref[1]] = SetItem(@, key, value)]
    ELSE [h EXCEPT ![ref[1]][ref[2]][ref[3]] = SetItem(@, key, value)]

CopyRef_SameObject(ref, name) == ref

\* name = list(obj), name = dict(obj): the name refers to the copy
CopyRef(ref, name) == NameRef(name)

\* fitting.py lines 117-119: boolean-mask indexing makes new arrays
FitMasked(h) ==
    Bind(Bind(h, "t_clean", Masked(h.t, valid_mask(h.t, h.q))),
         "q_clean", Masked(h.q, valid_mask(h.t, h.q)))

\* lines 129-130: t_clean + 1.0 is a new array
FitShifted(h, model_type) ==
    IF model_type = "duong" /\ FEq(h.t_clean[1], Zero)
    THEN Bind(h, "t_clean", [i \in DOMAIN h.t_clean |-> FAdd(h.t_clean[i], One)])
    ELSE h

\* lines 136-139: upper = list(bounds_cfg["upper"]); upper[0] = qi_max;
\* lower = list(bounds_cfg["lower"]), qi_max being computed at line 136
FitBounded(h, model_type, qi_max) ==
    Bind(StoreIndex(Bind(h, "upper", Load(h, BoundsRef(model_type, "upper"))),
                    CopyRef(BoundsRef(model_type, "upper"), "upper"), 1, qi_max),
         "lower", Load(h, BoundsRef(model_type, "lower")))

\* line 142: the guess is a dict _get_initial_guess makes, user_params is read
FitGuessed(h, model_type) ==
    Bind(h, "guess", get_initial_guess(h.t_clean, h.q_clean, model_type, h.initial_params))

\* lines 128-142, on at least three clean points
FitPrepared(h, model_type) ==
    FitGuessed(
        FitBounded(FitShifted(h, model_type), model_type,
                   PyMax(FMul(NpMax(h.q_clean), Int2F(3)),
                         Load(h, BoundsRef(model_type, "upper"))[1])),
        model_type)

\* what DCAFitter.fit binds and stores (lines 108-149); the optimizers called
\* after that read their arguments
FitEffectsCleaned(h, model_type) ==
    IF Len(h.t_clean) < MinValidPoints THEN h ELSE FitPrepared(h, model_type)

FitEffects(h, model_type) ==
    IF model_type \notin DOMAIN h.BOUNDS
    THEN h
    ELSE FitEffectsCleaned(FitMasked(h), model_type)

RECURSIVE RunOverrides(_, _, _, _)
\* monte_carlo.py lines 77-83: params[param_name] = sample for the first k
\* distributions
RunOverrides(h, dists, draw, k) ==
    IF k = 0
    THEN h
    ELSE StoreKey(RunOverrides(h, dists, draw, k - 1),
                  CopyRef(NameRef("base_parameters"), "params"),
                  dists[k].name, draw[dists[k].name])

\* lines 75-83: one iteration, params = dict(base_parameters) first
RunIteration(h, draw) ==
    RunOverrides(Bind(h, "params", h.base_parameters), h.param_distributions, draw,
                 Len(h.param_distributions))

RECURSIVE RunEffects(_, _, _)
\* what MonteCarloEUR.run binds and stores in its first i iterations
RunEffects(h, draws, i) ==
    IF i = 0 THEN h ELSE RunIteration(RunEffects(h, draws, i - 1), draws[i])

\* the series a caller fits: with and without a sample at time 0, one whose
\* sample at time 0 is not the first, one whose largest rate moves the qi
\* bound, one too short, one that loses a point
FrameSeries ==
    { Series(<<Zero, One, Int2F(2)>>, <<Int2F(4), Int2F(2), One>>),
      Series(<<One, Zero, Int2F(2)>>, <<Int2F(2), Int2F(4), One>>),
      Series(<<One, Int2F(2), Int2F(3)>>, <<Int2F(4), Int2F(2), One>>),
      Series(<<Zero, One, Int2F(2)>>, <<Int2F(400000), Int2F(400000), Int2F(400000)>>),
      Series(<<Zero, One>>, <<Int2F(4), Int2F(2)>>),
      Series(<<Zero, One, Int2F(2), Int2F(3)>>, <<Int2F(4), NaN, Int2F(2), One>>) }

FrameModels == KnownModels \cup {"arps"}

FrameBase == {[qi |-> Int2F(4), di |-> Fin(1, 2)], [qi |-> Int2F(4)]}

FrameDists == {<<>>, <<[name |-> "di"]>>, <<[name |-> "di"], [name |-> "qi"]>>}

FrameSampleVals == {One, Int2F(2)}

MaxFrameIterations == 2

\* the values drawn in the iterations of a run, one for each parameter
FrameDraws ==
    UNION {[1..n -> [{"qi", "di"} -> FrameSampleVals]] : n \in 0..MaxFrameIterations}

\* the caller's objects, as they are when the call is made
Passed(call, model_type, t, q, initial_params, base_parameters, param_distributions) ==
    [call |-> call, model_type |-> model_type, t |-> t, q |-> q,
     initial_params |-> initial_params, base_parameters |-> base_parameters,
     param_distributions |-> param_distributions]

\* the heap when the call starts: the class-level table as the calls before
\* left it, the caller's objects as the arguments, and no local
Called(h, passed) ==
    [NoHeap EXCEPT !.pc = "on", !.BOUNDS = h.BOUNDS,
                   !.passed = passed, !.t = passed.t, !.q = passed.q,
                   !.initial_params = passed.initial_params,
                   !.base_parameters = passed.base_parameters,
                   !.param_distributions = passed.param_distributions]

InitFrame ==
    /\ heap = [NoHeap EXCEPT !.pc = "on", !.BOUNDS = BOUNDS]
    /\ law = NoLaw
    /\ ForecastIdle
    /\ MonteCarloIdle
    /\ FitIdle
    /\ ServiceIdle

\* a call of DCAFitter.fit
CallFit ==
    /\ heap.pc = "on"
    /\ \E sr \in FrameSeries : \E model_type \in FrameModels : \E ip \in InitialParams :
          heap' = FitEffects(
                      Called(heap, Passed("fit", model_type, sr.t, sr.q, ip, <<>>, <<>>)),
                      model_type)
    /\ UNCHANGED <<law, fcVars, mcVars, fitVars, svcVars>>

\* a call of MonteCarloEUR.run
CallRun ==
    /\ heap.pc = "on"
    /\ \E base \in FrameBase : \E dists \in FrameDists : \E draws \in FrameDraws :
          heap' = RunEffects(
                      Called(heap, Passed("run", "exponential", <<>>, <<>>, <<>>, base, dists)),
                      draws, Len(draws))
    /\ UNCHANGED <<law, fcVars, mcVars, fitVars, svcVars>>

NextFrame == CallFit \/ CallRun

SpecFrame == InitFrame /\ [][NextFrame]_vars

----------------------------------------------------------------------------
(* The decline laws and the search for the economic limit, applied to one
   point: the parameters are drawn, one function is applied in one step *)

LawQi == {Zero, Int2F(4)}
LawDi == {Int2F(-1), Zero, Fin(1, 2), One}

\* the parameters tried: inside the laws' domain, and at the zeros of it
LawParams(model_type) ==
    CASE model_type \in {"exponential", "harmonic"} -> [qi : LawQi, di : LawDi]
      [] model_type = "hyperbolic" ->
           [qi : {Int2F(4)}, di : {Zero, Fin(1, 2), One}, b : {Zero, Fin(1, 2), One, Int2F(2)}]
      [] model_type = "modified_hyperbolic" ->
           [qi : {Int2F(4)}, di : {Zero, Fin(1, 2), One}, b : {Zero, One, Int2F(2)},
            d_min : {Zero, Fin(1, 4), Fin(1, 2), One}]
      [] model_type = "sedm" ->
           [qi : {Int2F(4)}, tau : {Zero, Int2F(2)}, n : {Zero, Fin(1, 2), One}]
      [] model_type = "duong" -> [qi : {Int2F(4)}, a : {Zero, One}, m : {One, Int2F(2)}]

LawTimes == {Zero, Fin(1, 2), One, Int2F(2), Int2F(4)}

\* duong's rate at its floor of t = 0 is beyond the integers' width
LawTimesOf(model_type) == IF model_type = "duong" THEN LawTimes \ {Zero} ELSE LawTimes
LawRates == {Zero, One, Int2F(2), Int2F(3), Int2F(4), Int2F(8)}
LawLimits == {Zero, One, Int2F(2), Int2F(3), Int2F(5)}

\* the laws with a closed-form time_to_rate
TimeToRateModels == KnownModels \ {"duong"}

\* the laws whose rates at the midpoints of the search the integers hold
SearchModels == {"exponential", "harmonic"}

InitLaw ==
    /\ \E model_type \in KnownModels : \E p \in LawParams(model_type) :
          law = [NoLaw EXCEPT !.pc = "pending", !.model_type = model_type, !.p = p]
    /\ heap = NoHeap
    /\ ForecastIdle
    /\ MonteCarloIdle
    /\ FitIdle
    /\ ServiceIdle

Applied(l, fn, x, out) == [l EXCEPT !.pc = "done", !.fn = fn, !.x = x, !.out = out]

\* RATE_FUNCTIONS[model_type] at one time
ApplyRate ==
    /\ law.pc = "pending"
    /\ \E t \in LawTimesOf(law.model_type) :
          law' = Applied(law, "rate", t, RateAt(law.model_type, law.p, t))
    /\ UNCHANGED <<heap, fcVars, mcVars, fitVars, svcVars>>

\* CUMULATIVE_FUNCTIONS[model_type] at one time
ApplyCumulative ==
    /\ law.pc = "pending"
    /\ \E t \in LawTimesOf(law.model_type) :
          law' = Applied(law, "cumulative", t, CumAt(law.model_type, law.p, t))
    /\ UNCHANGED <<heap, fcVars, mcVars, fitVars, svcVars>>

\* the model's time_to_rate at one rate
ApplyTimeToRate ==
    /\ law.pc = "pending"
    /\ law.model_type \in TimeToRateModels
    /\ \E q \in LawRates :
          law' = Applied(law, "time_to_rate", q, TimeToRateAt(law.model_type, law.p, q))
    /\ UNCHANGED <<heap, fcVars, mcVars, fitVars, svcVars>>

\* MonteCarloEUR._time_to_economic_limit, with the bracket its search ends on
ApplySearch ==
    /\ law.pc = "pending"
    /\ law.model_type \in SearchModels
    /\ \E economic_limit \in LawLimits : \E max_months \in 1..MaxTimeMonths :
          law' = [Applied(law, "time_to_economic_limit", economic_limit,
                          time_to_economic_limit(law.model_type, law.p, economic_limit,
                                                 max_months))
                  EXCEPT !.max_months = max_months,
                         !.searched = SearchReached(law.model_type, law.p, economic_limit,
                                                    max_months),
                         !.bracket =
                             IF SearchReached(law.model_type, law.p, economic_limit, max_months)
                             THEN BisectBracket(law.model_type, law.p, economic_limit, TStart,
                                                Int2F(max_months), BisectIters)
                             ELSE Bracket(Zero, Zero, 0)]
    /\ UNCHANGED <<heap, fcVars, mcVars, fitVars, svcVars>>

NextLaw == ApplyRate \/ ApplyCumulative \/ ApplyTimeToRate \/ ApplySearch

SpecLaw == InitLaw /\ [][NextLaw]_vars

----------------------------------------------------------------------------
(* Properties of generate_forecast *)

FcReturned == fcOut.status = "ok"

\* C6: every rate in the series generate_forecast returns is >= economic_limit,
\* whatever the model, the parameters and the grid (rates that are not monotone
\* or not finite included).
C6_ReturnedRatesAtLeastLimit ==
    FcReturned =>
        \A i \in DOMAIN fcOut.rate : FGe(fcOut.rate[i], fcArgs.economic_limit)

\* a returned, truncated, non-empty series cut from a grid with a non-finite
\* rate and a rate that rises again
C6_Witness ==
    /\ FcReturned
    /\ 0 < Len(fcOut.rate) /\ Len(fcOut.rate) < Len(fcOut.rates)
    /\ \E i \in DOMAIN fcOut.rates : ~IsFinite(fcOut.rates[i])
    /\ \E i \in DOMAIN fcOut.rates : \E j \in DOMAIN fcOut.rates :
          i < j /\ FLt(fcOut.rates[i], fcOut.rates[j])

\* the three returned lists are the first keep points of the evaluated grid
IsPrefix(keep) ==
    /\ fcOut.time = SubSeq(fcOut.t, 1, keep)
    /\ fcOut.rate = SubSeq(fcOut.rates, 1, keep)
    /\ fcOut.cumulative = [i \in 1..keep |-> FMul(fcOut.cum[i], DaysPerMonth)]

\* the number of grid points before the first one that satisfies Stop
PointsBefore(Stop(_)) ==
    IF \A i \in DOMAIN fcOut.rates : ~Stop(i) THEN Len(fcOut.rates)
    ELSE (CHOOSE i \in DOMAIN fcOut.rates :
            Stop(i) /\ \A j \in 1..(i - 1) : ~Stop(j)) - 1

\* C7 as stated: the series is the prefix of the grid before the first rate
\* that is below economic_limit (rate < economic_limit), the whole grid when
\* there is none.  (Stated for the finite limits only: it fails there already.)
C7_PrefixBeforeFirstBelow ==
    (FcReturned /\ IsFinite(fcArgs.economic_limit)) =>
        LET Below(i) == FLt(fcOut.rates[i], fcArgs.economic_limit)
        IN IsPrefix(PointsBefore(Below))

\* C7 as amended: the series is the prefix of the grid before the first rate
\* that is not >= economic_limit (below it, or NaN), the whole grid when there
\* is none, empty when that is the first point; the three lists have one length.
C7_PrefixBeforeFirstNotAbove ==
    FcReturned =>
        LET NotAbove(i) == ~FGe(fcOut.rates[i], fcArgs.economic_limit)
        IN /\ IsPrefix(PointsBefore(NotAbove))
           /\ Len(fcOut.time) = Len(fcOut.rate)
           /\ Len(fcOut.rate) = Len(fcOut.cumulative)

\* a series cut at a NaN rate that follows rates at or above the limit
C7_Witness ==
    /\ FcReturned
    /\ 0 < Len(fcOut.time) /\ Len(fcOut.time) < Len(fcOut.t)
    /\ IsNaN(fcOut.rates[Len(fcOut.time) + 1])
    /\ FEq(fcOut.rate[Len(fcOut.rate)], fcArgs.economic_limit)

\* C8: the returned time list is strictly increasing.
C8_TimeStrictlyIncreasing ==
    FcReturned =>
        \A i \in DOMAIN fcOut.time : \A j \in DOMAIN fcOut.time :
            i < j => FLt(fcOut.time[i], fcOut.time[j])

\* C9: no time of the grid generate_forecast evaluates, and so none of the
\* series it returns, is greater than forecast_months.
C9_GridWithinForecastMonths ==
    FcReturned =>
        /\ \A i \in DOMAIN fcOut.t : FLe(fcOut.t[i], Int2F(fcArgs.forecast_months))
        /\ \A i \in DOMAIN fcOut.time :
              FLe(fcOut.time[i], Int2F(fcArgs.forecast_months))

----------------------------------------------------------------------------
(* Properties of DCAFitter.fit *)

FitCalled == fitOut.status \notin {"none", "pending"}

\* C10: fit with a model_type outside the six known models returns (it does
\* not raise) a FitResult with success false, no parameters and a message
\* that names the type, and goes through neither the cleaning nor an optimizer.
C10_UnknownModelReturnsFailure ==
    FitCalled /\ fitArgs.model_type \notin KnownModels =>
        /\ fitOut.status = "returned"
        /\ fitOut.result.success = FALSE
        /\ DOMAIN fitOut.result.parameters = {}
        /\ \E i \in DOMAIN fitOut.result.message :
               fitOut.result.message[i] = fitArgs.model_type
        /\ fitOut.stages = <<>>

\* an unknown model type with a series the known models are fitted to
C10_Witness ==
    /\ FitCalled
    /\ fitArgs.model_type = "arps"
    /\ Len(Masked(fitArgs.t, valid_mask(fitArgs.t, fitArgs.q))) >= MinValidPoints
    /\ ~fitOut.result.success

\* the indices of the samples of the call that are usable: t and q finite,
\* q > 0 and t >= 0
UsableIdx ==
    {i \in DOMAIN fitArgs.t :
        /\ IsFinite(fitArgs.t[i]) /\ IsFinite(fitArgs.q[i])
        /\ fitArgs.q[i].n > 0 /\ fitArgs.t[i].n >= 0}

\* the position of usable sample i among the usable ones
UsableRank(i) == Cardinality({j \in UsableIdx : j <= i})

\* C11: fit keeps exactly the usable samples, in their order; with fewer than
\* 3 of them it returns (it does not raise) a FitResult with success false, no
\* parameters and a message, and runs no optimizer; with 3 or more it goes on
\* to the optimizer.
C11_CleaningKeepsUsableSamples ==
    FitCalled /\ fitArgs.model_type \in KnownModels =>
        /\ fitOut.status = "returned"
        /\ Len(fitOut.t_kept) = Cardinality(UsableIdx)
        /\ Len(fitOut.q_kept) = Cardinality(UsableIdx)
        /\ \A i \in UsableIdx :
               /\ fitOut.t_kept[UsableRank(i)] = fitArgs.t[i]
               /\ fitOut.q_kept[UsableRank(i)] = fitArgs.q[i]
        /\ IF Cardinality(UsableIdx) < 3
           THEN /\ fitOut.result.success = FALSE
                /\ DOMAIN fitOut.result.parameters = {}
                /\ Len(fitOut.result.message) > 0
                /\ fitOut.stages = <<"clean">>
           ELSE /\ Len(fitOut.stages) >= 2
                /\ fitOut.stages[2] = "curve_fit"

\* a series of four samples of which the cleaning leaves two
C11_Witness ==
    /\ FitCalled
    /\ fitArgs.model_type \in KnownModels
    /\ Len(fitArgs.t) = 4
    /\ Cardinality(UsableIdx) = 2
    /\ fitOut.stages = <<"clean">>
    /\ ~fitOut.result.success

\* C12: with a known model type and at least 3 usable samples fit returns a
\* FitResult and raises nothing: whichever error the local solve fails with,
\* the global optimizer is tried next, and when that fails too the result has
\* success false, no parameters and a message that carries the error; when
\* either optimizer succeeds the result has success true.
C12_SolverErrorsBecomeFailedResult ==
    FitCalled /\ fitArgs.model_type \in KnownModels /\ Cardinality(UsableIdx) >= 3 =>
        /\ fitOut.status = "returned"
        /\ fitOpt.curve_fit # "ok" =>
               SubSeq(fitOut.stages, 1, 3) = <<"clean", "curve_fit", "global_fit">>
        /\ fitOpt.curve_fit # "ok" /\ fitOpt.global_fit # "ok" =>
               /\ fitOut.result.success = FALSE
               /\ DOMAIN fitOut.result.parameters = {}
               /\ \E i \in DOMAIN fitOut.result.message :
                      fitOut.result.message[i] = fitOpt.global_fit
        /\ fitOpt.curve_fit = "ok" \/ fitOpt.global_fit = "ok" =>
               fitOut.result.success = TRUE

\* the local solve failed on an invalid value and the global one failed too
C12_Witness ==
    /\ FitCalled
    /\ fitArgs.model_type \in KnownModels
    /\ Cardinality(UsableIdx) >= 3
    /\ fitOpt.curve_fit = "ValueError"
    /\ fitOpt.global_fit # "ok"
    /\ fitOut.status = "returned"
    /\ ~fitOut.result.success

----------------------------------------------------------------------------
(* Properties of DCAFitter.auto_fit *)

AutoFitDone == af.pc = "done"

\* the usable samples of the series auto_fit was called with
AutoFitUsable ==
    {i \in DOMAIN af.t :
        /\ IsFinite(af.t[i]) /\ IsFinite(af.q[i])
        /\ af.q[i].n > 0 /\ af.t[i].n >= 0}

\* C13: auto_fit never raises; when it returns it has run fit once for each
\* of the six model types, the list it returns holds exactly the results with
\* success true, each once, with aic non-decreasing along the list; with fewer
\* than 3 usable samples the list is empty.
C13_AutoFitKeepsSuccessesSortedByAic ==
    /\ af.pc # "raised"
    /\ AutoFitDone =>
          /\ Len(af.fitted) = 6
          /\ {af.fitted[i].model_type : i \in DOMAIN af.fitted} = KnownModels
          /\ {af.out[i] : i \in DOMAIN af.out} =
                 {af.fitted[i] : i \in {j \in DOMAIN af.fitted : af.fitted[j].success}}
          /\ Len(af.out) = Cardinality({j \in DOMAIN af.fitted : af.fitted[j].success})
          /\ \A i \in DOMAIN af.out : \A j \in DOMAIN af.out :
                 i < j => FLe(af.out[i].aic, af.out[j].aic)
          /\ Cardinality(AutoFitUsable) < 3 => af.out = <<>>

\* a returned list of at least three models, with a failed model left out and
\* a model moved in front of one that was fitted before it
C13_Witness ==
    /\ AutoFitDone
    /\ Len(af.out) >= 3
    /\ Len(af.out) < Len(af.fitted)
    /\ \E i \in DOMAIN af.results : \E j \in DOMAIN af.results :
           i < j /\ FLt(af.results[j].aic, af.results[i].aic)

\* the place of a model type in BOUNDS
ModelPos(model_type) == CHOOSE i \in DOMAIN ModelOrder : ModelOrder[i] = model_type

\* C14: the order of the returned list is fixed by the fits' results alone:
\* a model comes before another exactly when its aic is smaller or, the two
\* being equal, when it comes first in the fitter's table of models; the
\* fits themselves are run in that table's order, one after the other.
C14_AutoFitOrderDetermined ==
    /\ \A i \in DOMAIN af.fitted : af.fitted[i].model_type = ModelOrder[i]
    /\ AutoFitDone =>
          \A i \in DOMAIN af.out : \A j \in DOMAIN af.out :
              i < j =>
                 \/ FLt(af.out[i].aic, af.out[j].aic)
                 \/ /\ af.out[i].aic = af.out[j].aic
                    /\ ModelPos(af.out[i].model_type) < ModelPos(af.out[j].model_type)

\* a returned list in which two models have the same aic and a third a smaller one
C14_Witness ==
    /\ AutoFitDone
    /\ \E i \in DOMAIN af.out : \E j \in DOMAIN af.out :
           i < j /\ af.out[i].aic = af.out[j].aic /\ IsFinite(af.out[i].aic)
    /\ \E i \in DOMAIN af.results : \E j \in DOMAIN af.results :
           i < j /\ FLt(af.results[j].aic, af.results[i].aic)

----------------------------------------------------------------------------
(* Properties of the rate functions on the forecast grid *)

\* the parameters of the call lie inside the fitter's bounds of the model
InBounds(model_type, p) ==
    /\ model_type \in DOMAIN BOUNDS
    /\ HasParams(model_type, p)
    /\ \A i \in DOMAIN BOUNDS[model_type].names :
          /\ FLe(BOUNDS[model_type].lower[i], p[BOUNDS[model_type].names[i]])
          /\ FLe(p[BOUNDS[model_type].names[i]], BOUNDS[model_type].upper[i])

\* C18: with parameters inside the fitter's bounds, the rates of each model on
\* an increasing grid of times (>= 1 for duong) are non-negative and
\* non-increasing.
C18_RateNonNegativeNonIncreasing ==
    (FcReturned /\ InBounds(fcArgs.model_type, fcArgs.parameters)) =>
        /\ \A i \in DOMAIN fcOut.rates : FGe(fcOut.rates[i], Zero)
        /\ \A i \in DOMAIN fcOut.rates : \A j \in DOMAIN fcOut.rates :
              (i < j /\ FLe(fcOut.t[i], fcOut.t[j])) => FGe(fcOut.rates[i], fcOut.rates[j])

----------------------------------------------------------------------------
(* Properties of compute_diagnostics *)

DiagDone == dg.status \in {"returned", "raised"}

MetricsOf(m) ==
    {m.r_squared, m.adjusted_r_squared, m.rmse, m.nrmse, m.mae, m.mape, m.aic,
     m.bic, m.durbin_watson}

\* C15: on a non-empty actual array and a predicted array equal to it,
\* compute_diagnostics returns r_squared 1, rmse 0, aic and bic minus infinity
\* and no NaN metric, whatever n_parameters, an array of equal values included.
C15_PerfectFitMetrics ==
    (DiagDone /\ Len(dg.y_actual) > 0 /\ dg.y_predicted = dg.y_actual) =>
        /\ dg.status = "returned"
        /\ dg.result.r_squared = One
        /\ dg.result.rmse = Zero
        /\ dg.result.aic = NInf
        /\ dg.result.bic = NInf
        /\ \A x \in MetricsOf(dg.result) : ~IsNaN(x)

\* the residual sum of squares of the call
DiagRss == SsRes(dg.y_actual, dg.y_predicted)

\* C16: compute_diagnostics never raises; it returns aic = bic = minus infinity
\* when the residual sum of squares is <= 0 or the arrays are empty, and
\* finite aic and bic in every other case.
C16_InformationCriteriaTotal ==
    DiagDone =>
        /\ dg.status = "returned"
        /\ IF Len(dg.y_actual) = 0 \/ FLe(DiagRss, Zero)
           THEN dg.result.aic = NInf /\ dg.result.bic = NInf
           ELSE IsFinite(dg.result.aic) /\ IsFinite(dg.result.bic)

\* the residual sums of squares of other candidate fits of the same data
CandidateRss == {Zero, Fin(1, 2), One, Int2F(2), Int2F(5), NaN}

\* C17: on the same n samples the aic of compute_diagnostics exceeds the aic
\* of DCAFitter.fit by n (log(2 pi) + 1), whatever the residual sum of squares
\* and the parameter count, and so does the bic; the one is minus infinity
\* exactly when the other is; two candidate fits of the same data are ranked
\* alike by both formulas.
C17_CriteriaDifferByFunctionOfN ==
    dg.status = "returned" =>
        /\ dg.result.aic = NInf <=> fit_aic(DiagRss, Len(dg.y_actual), dg.n_params) = NInf
        /\ dg.result.bic = NInf <=> fit_bic(DiagRss, Len(dg.y_actual), dg.n_params) = NInf
        /\ dg.result.aic # NInf =>
              /\ FSub(dg.result.aic, fit_aic(DiagRss, Len(dg.y_actual), dg.n_params))
                    = FMul(Int2F(Len(dg.y_actual)), FAdd(NpLog(TwoPi), One))
              /\ FSub(dg.result.bic, fit_bic(DiagRss, Len(dg.y_actual), dg.n_params))
                    = FMul(Int2F(Len(dg.y_actual)), FAdd(NpLog(TwoPi), One))
        /\ \A rss \in CandidateRss : \A k \in NParams :
              /\ FLt(dg.result.aic, diag_aic(rss, Len(dg.y_actual), k))
                    <=> FLt(fit_aic(DiagRss, Len(dg.y_actual), dg.n_params),
                            fit_aic(rss, Len(dg.y_actual), k))
              /\ FLt(dg.result.bic, diag_bic(rss, Len(dg.y_actual), k))
                    <=> FLt(fit_bic(DiagRss, Len(dg.y_actual), dg.n_params),
                            fit_bic(rss, Len(dg.y_actual), k))

\* a call on three samples with a positive residual sum of squares and three
\* parameters, whose criteria are finite
C17_Witness ==
    /\ dg.status = "returned"
    /\ Len(dg.y_actual) = 3
    /\ dg.n_params = 3
    /\ FGt(DiagRss, Zero)
    /\ IsFinite(dg.result.aic)
    /\ IsFinite(dg.result.bic)
    /\ dg.result.aic # dg.result.bic

----------------------------------------------------------------------------
(* Properties of the production and DCA endpoints *)

\* the last request was an upsert that wrote at least one record
UpsertWrote(request) == request.op = "upsert" /\ request.status = "success" /\ request.count >= 1

\* C19: after a production upsert that wrote at least one record, no analysis
\* of that well and team is stored any more, and a listing of the well by that
\* team that follows it at once returns nothing.
C19_UpsertRemovesAnalyses ==
    /\ UpsertWrote(api.last) =>
          list_analyses(api.db, api.last.well_id, api.last.team_id) = {}
    /\ (/\ api.last.op = "list"
        /\ UpsertWrote(api.before)
        /\ api.before.well_id = api.last.well_id
        /\ api.before.team_id = api.last.team_id) => api.listed = {}

\* an upsert of one month already stored, on a well of which the team had an
\* analysis, while an analysis of another well is kept
C19_Witness ==
    /\ UpsertWrote(api.last)
    /\ api.last.count = 1
    /\ api.had > 0
    /\ api.db.analyses # {}

----------------------------------------------------------------------------
(* Properties of the auto-fit endpoint *)

\* the forecast of a returned model over the months and down to the limit of
\* the request
ForecastOfRequest(r, forecast_months, economic_limit) ==
    generate_forecast(r.model_type, r.parameters, forecast_months, economic_limit, One)

\* C20: every forecast point the auto-fit endpoint returns has time_months <=
\* the request's forecast_months, and the forecast of every model returned is
\* the one cut at the request's economic_limit over the request's months.
C20_AutoFitHonoursRequest ==
    ep.pc = "responded" =>
        \A i \in DOMAIN ep.response :
            /\ \A k \in DOMAIN ep.response[i].time_months :
                  FLe(ep.response[i].time_months[k], Int2F(ep.forecast_months))
            /\ ep.response[i].time_months =
                  ForecastOfRequest(ep.response[i], ep.forecast_months,
                                              ep.economic_limit).time
            /\ ep.response[i].rate =
                  ForecastOfRequest(ep.response[i], ep.forecast_months,
                                              ep.economic_limit).rate

----------------------------------------------------------------------------
(* Staleness of the stored analyses *)

\* C30: whatever requests were served, no stored analysis is older than the
\* last request that changed the production records of its well.
C30_NoStaleAnalysis == api.stale = {}

----------------------------------------------------------------------------
(* Frame of the engine calls *)

\* C21: after any sequence of calls of fit and run, the class-level BOUNDS
\* table has its initial value, and the arrays t and q, initial_params,
\* base_parameters and param_distributions are what the caller passed.
C21_CallsLeaveSharedDataUnchanged ==
    /\ heap.BOUNDS = BOUNDS
    /\ heap.t = heap.passed.t
    /\ heap.q = heap.passed.q
    /\ heap.initial_params = heap.passed.initial_params
    /\ heap.base_parameters = heap.passed.base_parameters
    /\ heap.param_distributions = heap.passed.param_distributions

\* a duong fit that shifted its times, moved the qi bound and took the
\* caller's qi as its guess
C21_Witness ==
    /\ heap.passed.call = "fit"
    /\ heap.passed.model_type = "duong"
    /\ heap.t_clean # <<>>
    /\ heap.t_clean # heap.t
    /\ heap.upper # <<>>
    /\ heap.upper # BOUNDS["duong"].upper
    /\ heap.guess # <<>>
    /\ "qi" \in DOMAIN heap.initial_params
    /\ heap.guess["qi"] = heap.initial_params["qi"]

----------------------------------------------------------------------------
(* generate_forecast on a law of infinite EUR *)

\* a call with economic_limit = 0 on a harmonic law, or a hyperbolic one
\* with b >= 1, of positive qi and di
InfiniteEurCall ==
    /\ fcArgs.model_type \in {"harmonic", "hyperbolic"}
    /\ HasParams(fcArgs.model_type, fcArgs.parameters)
    /\ FEq(fcArgs.economic_limit, Zero)
    /\ FGt(fcArgs.parameters.qi, Zero)
    /\ FGt(fcArgs.parameters.di, Zero)
    /\ fcArgs.model_type = "hyperbolic" => FGe(fcArgs.parameters.b, One)

\* the grid has at most forecast_months / time_step points
GridSizeBounded ==
    FLe(FMul(Int2F(Len(fcOut.t)), fcArgs.time_step), Int2F(fcArgs.forecast_months))

\* C22: a forecast with economic_limit = 0 on a law of infinite EUR returns;
\* its grid has at most forecast_months / time_step points, the whole grid is
\* returned, and the last time returned is forecast_months.
C22_InfiniteEurForecastIsFullGrid ==
    (fcOut.status # "pending" /\ InfiniteEurCall) =>
        /\ FcReturned
        /\ GridSizeBounded
        /\ fcOut.time = fcOut.t
        /\ Len(fcOut.rate) = Len(fcOut.t)
        /\ Len(fcOut.cumulative) = Len(fcOut.t)
        /\ fcArgs.forecast_months >= 1 =>
              /\ Len(fcOut.time) >= 1
              /\ FEq(fcOut.time[Len(fcOut.time)], Int2F(fcArgs.forecast_months))

\* the part of C22 that does not depend on where the grid ends
C22_InfiniteEurForecastUntruncated ==
    (fcOut.status # "pending" /\ InfiniteEurCall) =>
        /\ FcReturned
        /\ fcOut.time = fcOut.t
        /\ Len(fcOut.rate) = Len(fcOut.t)
        /\ Len(fcOut.cumulative) = Len(fcOut.t)

----------------------------------------------------------------------------
(* MonteCarloEUR.run on a parameter set that lacks a parameter *)

\* the names of the parameter set of every iteration: those of
\* base_parameters and those sampled
ParamSetNames(args) == DOMAIN args.base_parameters \cup DistNames(args.param_distributions)

\* the model is known, the distributions are valid, and the parameter set
\* lacks a name the model requires
MissingParameter(args) ==
    /\ args.model_type \in KnownModels
    /\ ~InvalidDistributions(args.param_distributions)
    /\ \E i \in DOMAIN param_order(args.model_type) :
          param_order(args.model_type)[i] \notin ParamSetNames(args)

\* C23: a run of at least one iteration whose parameter set lacks a
\* parameter the model requires computes no sample and returns no result.
C23_MissingParameterFailsRun ==
    \A r \in Runs :
        (/\ run[r].pc # "off"
         /\ run[r].args.iterations > 0
         /\ MissingParameter(run[r].args)) =>
            /\ run[r].eur_samples = <<>>
            /\ ~Returned(r)

\* what the code does instead: every sample of such a run is cum_to_date
MissingParameterAbsorbed ==
    \A r \in Runs :
        run[r].pc # "off" /\ MissingParameter(run[r].args) =>
            \A k \in DOMAIN run[r].eur_samples :
                run[r].eur_samples[k] = run[r].args.cum_to_date

----------------------------------------------------------------------------
(* The chain of optimizers in DCAFitter.fit *)

\* the optimizers were reached: the model is known and three samples are kept
OptimizersReached == FitCalled /\ Len(fitOut.stages) >= 2

StageAt(name) == {i \in DOMAIN fitOut.stages : fitOut.stages[i] = name}

\* the parameters dict of a result that took the point popt
ParametersOf(model_type, popt) ==
    [nm \in {BOUNDS[model_type].names[i] : i \in DOMAIN BOUNDS[model_type].names} |->
        popt[CHOOSE i \in DOMAIN BOUNDS[model_type].names :
                 BOUNDS[model_type].names[i] = nm]]

\* C24: the global optimizer is started only after the local solve failed, the
\* refinement only after the global optimizer returned; a failed refinement
\* gives success true with the global optimizer's parameters and a k-by-k
\* covariance of zeros; success false is returned only when the global
\* optimizer failed.
C24_OptimizerChain ==
    OptimizersReached =>
        /\ fitOut.status = "returned"
        /\ fitOut.stages[2] = "curve_fit"
        /\ StageAt("global_fit") # {} =>
              /\ StageAt("global_fit") = {3}
              /\ fitOpt.curve_fit \in CurveFitErrors
        /\ StageAt("refine") # {} =>
              /\ StageAt("refine") = {4}
              /\ StageAt("global_fit") = {3}
              /\ fitOpt.global_fit = "ok"
        /\ (StageAt("refine") # {} /\ fitOpt.pcov = "zero") =>
              /\ fitOut.result.success = TRUE
              /\ fitOut.result.parameters = ParametersOf(fitArgs.model_type, fitOpt.popt)
              /\ Len(fitOut.result.covariance) = Len(fitOpt.popt)
              /\ \A r \in DOMAIN fitOut.result.covariance :
                    /\ Len(fitOut.result.covariance[r]) = Len(fitOpt.popt)
                    /\ \A c \in DOMAIN fitOut.result.covariance[r] :
                          fitOut.result.covariance[r][c] = "zero"
        /\ fitOut.result.success = FALSE =>
              /\ StageAt("global_fit") = {3}
              /\ StageAt("refine") = {}
              /\ fitOpt.global_fit # "ok"

\* the local solve failed, the global optimizer returned a point of three
\* parameters and the refinement failed
C24_Witness ==
    /\ OptimizersReached
    /\ fitOpt.curve_fit = "RuntimeError"
    /\ fitOpt.global_fit = "ok"
    /\ fitOpt.pcov = "zero"
    /\ Len(fitOpt.popt) = 3
    /\ fitOut.stages = <<"clean", "curve_fit", "global_fit", "refine">>
    /\ fitOut.result.success

----------------------------------------------------------------------------
(* The times DCAFitter.fit gives the rate function *)

\* fit was called on a known model and kept enough samples for the optimizer,
\* which evaluates the rate function on t_clean
OptimizedOn(h) ==
    /\ h.passed.call = "fit"
    /\ h.passed.model_type \in KnownModels
    /\ Len(h.t_clean) >= MinValidPoints

\* the cleaned times, as lines 117-119 select them
CleanedTimes(h) == Masked(h.t, valid_mask(h.t, h.q))

\* C25: the times a duong fit gives the rate function are all > 0, being the
\* cleaned times plus 1 when the earliest cleaned time is 0; the times of the
\* other models are the cleaned times.
C25_DuongTimesPositive ==
    OptimizedOn(heap) =>
        /\ heap.passed.model_type = "duong" =>
              /\ \A i \in DOMAIN heap.t_clean : FGt(heap.t_clean[i], Zero)
              /\ (\E i \in DOMAIN CleanedTimes(heap) : FEq(CleanedTimes(heap)[i], Zero)) =>
                    heap.t_clean =
                        [i \in DOMAIN CleanedTimes(heap) |-> FAdd(CleanedTimes(heap)[i], One)]
        /\ heap.passed.model_type # "duong" => heap.t_clean = CleanedTimes(heap)

\* the same for series whose first cleaned time is the earliest
C25_DuongTimesPositiveWhenEarliestFirst ==
    (/\ OptimizedOn(heap)
     /\ \A i \in DOMAIN CleanedTimes(heap) : FLe(CleanedTimes(heap)[1], CleanedTimes(heap)[i])) =>
        /\ heap.passed.model_type = "duong" =>
              /\ \A i \in DOMAIN heap.t_clean : FGt(heap.t_clean[i], Zero)
        /\ heap.passed.model_type # "duong" => heap.t_clean = CleanedTimes(heap)

----------------------------------------------------------------------------
(* Properties of the decline laws at one point *)

LawApplied(fn) == law.pc = "done" /\ law.fn = fn

\* C28: no rate, cumulative or time_to_rate function raises ZeroDivisionError,
\* whatever the parameters, zeros included, and the hyperbolic cumulative at
\* b = 1 is the harmonic logarithmic form.
C28_LawsNeverDivideByZero ==
    /\ (LawApplied("rate") \/ LawApplied("cumulative") \/ LawApplied("time_to_rate")) =>
          ~IsExc(law.out)
    /\ (/\ LawApplied("cumulative")
        /\ law.model_type = "hyperbolic"
        /\ FEq(law.p.b, One)
        /\ ~IsExc(law.out)) =>
          law.out = harmonic_cumulative(law.x, law.p.qi, law.p.di)

\* the part of C28 about the hyperbolic cumulative at b = 1
C28_HyperbolicCumulativeAtOne ==
    (/\ LawApplied("cumulative")
     /\ law.model_type = "hyperbolic"
     /\ FEq(law.p.b, One)
     /\ ~IsExc(law.out)) =>
        law.out = harmonic_cumulative(law.x, law.p.qi, law.p.di)

----------------------------------------------------------------------------
(* The phases of the modified hyperbolic law *)

\* a modified hyperbolic law of positive qi, di, b and d_min was applied
MhApplied(fn) ==
    /\ LawApplied(fn)
    /\ law.model_type = "modified_hyperbolic"
    /\ FGt(law.p.qi, Zero)
    /\ FGt(law.p.di, Zero)
    /\ FGt(law.p.b, Zero)
    /\ FGt(law.p.d_min, Zero)

\* the switch point of the law applied
MhSwitchTime == t_switch(law.p.di, law.p.b, law.p.d_min)
MhSwitchRate == hyperbolic_rate(MhSwitchTime, law.p.qi, law.p.di, law.p.b)
MhSwitchCum == hyperbolic_cumulative(MhSwitchTime, law.p.qi, law.p.di, law.p.b)

\* rate and cumulative choose the phase as C29 says
MhRateAndCumulativePhases ==
    /\ MhApplied("rate") =>
          law.out =
              IF FGe(law.p.d_min, law.p.di)
              THEN exponential_rate(law.x, law.p.qi, law.p.d_min)
              ELSE IF FLe(law.x, MhSwitchTime)
              THEN hyperbolic_rate(law.x, law.p.qi, law.p.di, law.p.b)
              ELSE exponential_rate(FSub(law.x, MhSwitchTime), MhSwitchRate, law.p.d_min)
    /\ MhApplied("cumulative") =>
          law.out =
              IF FGe(law.p.d_min, law.p.di)
              THEN exponential_cumulative(law.x, law.p.qi, law.p.d_min)
              ELSE IF FLe(law.x, MhSwitchTime)
              THEN hyperbolic_cumulative(law.x, law.p.qi, law.p.di, law.p.b)
              ELSE FAdd(MhSwitchCum,
                        exponential_cumulative(FSub(law.x, MhSwitchTime), MhSwitchRate,
                                               law.p.d_min))

\* time_to_rate picks the phase that holds the rate, when d_min < di
MhTimeToRatePhases ==
    (MhApplied("time_to_rate") /\ FLt(law.p.d_min, law.p.di)) =>
        law.out =
            IF RateNotAhead(law.x, law.p.qi) THEN Zero
            ELSE IF FGe(law.x, MhSwitchRate)
            THEN hyperbolic_time_to_rate(law.x, law.p.qi, law.p.di, law.p.b)
            ELSE FAdd(MhSwitchTime,
                      exponential_time_to_rate(law.x, MhSwitchRate, law.p.d_min))

\* C29: with d_min >= di the rate, the cumulative and time_to_rate of the
\* modified hyperbolic law are those of the exponential law at d_min from
\* t = 0; with d_min < di a time up to the switch time is on the hyperbolic
\* law and a later one on the exponential tail from the switch point, in rate
\* and cumulative alike, and time_to_rate takes the phase that holds the rate.
C29_ModifiedHyperbolicPhases ==
    /\ MhRateAndCumulativePhases
    /\ MhTimeToRatePhases
    /\ (MhApplied("time_to_rate") /\ FGe(law.p.d_min, law.p.di)) =>
          law.out = exponential_time_to_rate(law.x, law.p.qi, law.p.d_min)

----------------------------------------------------------------------------
(* Properties of the search for the economic limit *)

Searched == LawApplied("time_to_economic_limit")

\* the rate of the law applied
LawRate(t) == RateAt(law.model_type, law.p, t)

\* the laws explored by the search whose rate does not increase with t
NonIncreasingLaw == FGe(law.p.qi, Zero) /\ FGe(law.p.di, Zero)

\* the default horizon of run (max_time_months = 600)
MaxSearchMonths == 600

\* the halvings that bring the bracket [0.01, max_months] under 0.01 month
HalvingsFor(max_months) ==
    CHOOSE k \in 0..BisectIters :
        /\ 100 * max_months - 1 < 2^k
        /\ k > 0 => 100 * max_months - 1 >= 2^(k - 1)

\* the search on a law that does not increase: the bracket it ends on, the
\* halvings it took, and its result
SearchBracketsLimit ==
    (Searched /\ law.searched /\ NonIncreasingLaw) =>
        /\ BisectIters - law.bracket.left = HalvingsFor(law.max_months)
        /\ HalvingsFor(law.max_months) <= HalvingsFor(MaxSearchMonths)
        /\ HalvingsFor(MaxSearchMonths) <= BisectIters
        /\ FLt(law.bracket.t_low, law.bracket.t_high)
        /\ FLt(FSub(law.bracket.t_high, law.bracket.t_low), SearchTol)
        /\ FGe(LawRate(law.bracket.t_low), law.x)
        /\ FGe(law.x, LawRate(law.bracket.t_high))
        /\ law.out = Mid(law.bracket.t_low, law.bracket.t_high)

\* the result lies in [0, max_time_months]
SearchResultInRange ==
    Searched => FGe(law.out, Zero) /\ FLe(law.out, Int2F(law.max_months))

----------------------------------------------------------------------------
(* The parameter samples of MonteCarloEUR.run *)

\* the bounds given for a name, as (low, high) with low <= high
BoundsOf(args, name) ==
    {bd \in args.param_bounds : bd[1] = name /\ FLe(bd[2], bd[3])}

\* C27: in every iteration computed, the value stored for a sampled parameter
\* is the one the sample's EUR was computed with, it lies inside the bounds
\* given for it, and the other parameters have their base value; a result
\* returned has iterations samples and iterations values of every sampled
\* parameter.
C27_StoredSamplesAreTheOnesUsed ==
    \A r \in Runs :
        /\ \A i \in DOMAIN run[r].eur_samples :
              /\ run[r].eur_samples[i] =
                     SampleEur(run[r].args.model_type, run[r].used[i],
                               run[r].args.economic_limit, run[r].args.cum_to_date,
                               run[r].args.max_time_months)
              /\ \A name \in DistNames(run[r].args.param_distributions) :
                    /\ name \in DOMAIN run[r].used[i]
                    /\ run[r].param_samples[name][i] = run[r].used[i][name]
              /\ \A name \in DOMAIN run[r].args.base_parameters
                                \ DistNames(run[r].args.param_distributions) :
                    run[r].used[i][name] = run[r].args.base_parameters[name]
        /\ \A name \in DOMAIN run[r].param_samples :
              \A i \in DOMAIN run[r].param_samples[name] :
                  \A bd \in BoundsOf(run[r].args, name) :
                      /\ FGe(run[r].param_samples[name][i], bd[2])
                      /\ FLe(run[r].param_samples[name][i], bd[3])
        /\ Returned(r) =>
              /\ Len(run[r].result.eur_distribution) = run[r].args.iterations
              /\ DOMAIN run[r].result.parameter_samples
                     = DistNames(run[r].args.param_distributions)
              /\ \A name \in DOMAIN run[r].result.parameter_samples :
                    Len(run[r].result.parameter_samples[name]) = run[r].args.iterations

\* a run returned with bounds on di, where a draw below the lower bound was
\* stored as the bound and another draw was stored as drawn
C27_Witness ==
    \E r \in Runs :
        /\ Returned(r)
        /\ run[r].args.iterations = MaxIterations
        /\ BoundsOf(run[r].args, "di") # {}
        /\ "qi" \in DOMAIN run[r].used[1]
        /\ \E i \in DOMAIN run[r].used : \E bd \in BoundsOf(run[r].args, "di") :
              run[r].param_samples["di"][i] = bd[2]
        /\ \E i \in DOMAIN run[r].used : \E j \in DOMAIN run[r].used :
              run[r].param_samples["di"][i] # run[r].param_samples["di"][j]


=============================================================================
